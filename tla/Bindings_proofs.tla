--------------------------- MODULE Bindings_proofs ---------------------------
(***************************************************************************)
(* Proofs about the bindings.  First of the signals, for any number of     *)
(* signals, whatever the program and its handlers call and whenever        *)
(* signals come in: type correctness, and that no noted signal is          *)
(* forgotten, references are owned by one entry, and no handler is called  *)
(* for nothing.  Then of the parts of Bindings, each with an inductive     *)
(* invariant of its own: signals in ANSI C, descriptors, children, exec(), *)
(* the objects of libtls, patterns, limits and the system log; the others  *)
(* are in ReadsBack_proofs.  Last of all of them together.                 *)
(***************************************************************************)
EXTENDS Signal, ReadsBack_proofs

(* The inductive invariant, by the parts of the state it is about.          *)

Kernel == /\ action \in [Sig -> Action]
          /\ pending \subseteq Sig \ Fixed
          /\ mask \subseteq Sig
          /\ sent \in 0 .. MaxSent

\* A C handler that is past its first step has the hook set: the backend, which
\* clears it, does not run as long as a C handler does.
Frame == [sig : Sig, at : {"hook", "note", "block", "return"}, saved : SUBSET Sig]

Frames == /\ frames \in Seq(Frame)
          /\ hook \in BOOLEAN
          /\ \A k \in DOMAIN frames : /\ frames[k].sig \notin Fixed
                                      /\ frames[k].at # "hook" => hook

\* Where the program is tells which call it is in and whether in the backend.
Program == /\ at \in {"lua", "unhook", "while", "zero", "scan", "unblock", "call", "installed",
                      "clear", "waiting"}
           /\ scan \in 0 .. Last + 1
           /\ at \in {"unhook", "while", "zero", "scan", "unblock"} => scan # 0
           /\ at \in {"lua", "unblock", "call", "installed", "clear", "waiting"} => scan <= Last
           /\ call \in Calls
           /\ at = "installed" => call.op = "catch"
           /\ at = "waiting" => call.op = "suspend"
           /\ at = "clear" => call.op \in {"ignore", "default", "caught"}
           /\ call.op \in {"ignore", "default", "caught"} => call.todo # {}

\* A signal that cannot be caught has no reference but between the two steps of
\* a catch() that is going to fail; the old reference of a catch() is owned by
\* no entry.
Table == /\ m_handlers \in [Sig -> Entry]
         /\ refs \subseteq Ref
         /\ Cardinality(leaked) <= MaxLeaked
         /\ RefsOwned
         /\ \A s \in Fixed : /\ ~ Noted(s)
                             /\ HasHandler(s) => at = "installed" /\ call.sig = s
         /\ at = "installed" =>
              /\ call.old.fref # NoRef => \A s \in Sig : m_handlers[s].fref # call.old.fref
              /\ call.sig \in Fixed => call.old.fref = NoRef /\ ~ call.old.triggered

\* The backend's scan has not come to s; a handler that runs is behind it.
ScanAhead(s) == /\ scan # 0
                /\ \/ at = "scan" /\ scan <= s
                   \/ at \notin {"unhook", "while", "zero", "scan"} /\ scan < s

\* The signal that caught() is just telling of.
Told(s) == at = "clear" /\ call.op = "caught" /\ s = First

Notes == /\ m_signal \in BOOLEAN
         /\ abandoned \in BOOLEAN
         /\ news \subseteq Sig
         /\ m_signal => hook \/ at \in {"while", "zero"}
         /\ \A s \in Sig : Noted(s) /\ HasHandler(s) =>
               m_signal \/ abandoned \/ ScanAhead(s)
         /\ \A s \in Sig : Noted(s) => s \in news \/ Told(s)

IInv == Kernel /\ Frames /\ Program /\ Table /\ Notes
-----------------------------------------------------------------------------
(* What holds of the operators.                                             *)

\* The signal that ignore(), default() or caught() is to see to.
LEMMA FirstInTodo ==
  ASSUME Program, call.op \in {"ignore", "default", "caught"}
  PROVE  First \in Sig /\ First \in call.todo /\ call.todo \subseteq Sig
<1>1. call \in [op : {"ignore", "default", "caught"}, todo : SUBSET Sig]
  BY DEF Program, Calls, NoCall
<1>2. call.todo \subseteq Sig /\ call.todo # {} /\ Sig \subseteq Nat
  BY <1>1, SignalAssumption DEF Program, Sig
<1>3. \E s \in call.todo : \A t \in call.todo : s <= t
  <2> DEFINE S == call.todo
  <2>1. PICK s \in S : \A t \in S : <<t, s>> \notin OpToRel(<, Nat)
    BY <1>2, NatLessThanWellFounded, WFMin
  <2>2. ASSUME NEW t \in S PROVE s <= t
    <3>1. s \in Nat /\ t \in Nat
      BY <1>2
    <3>2. <<t, s>> \notin OpToRel(<, Nat)
      BY <2>1
    <3>3. ~ (t < s)
      BY <3>1, <3>2 DEF OpToRel
    <3>4. QED
      BY <3>1, <3>3
  <2>3. QED
    BY <2>2
<1>4. QED
  BY <1>2, <1>3 DEF First

\* What a call carries, by its name.
LEMMA CatchCall ==
  ASSUME Program, call.op = "catch"
  PROVE  call \in [op : {"catch"}, sig : Sig, option : Option, old : Entry]
BY DEF Program, Calls, NoCall

LEMMA SuspendCall ==
  ASSUME Program, call.op = "suspend"
  PROVE  call \in [op : {"suspend"}, set : SUBSET Sig, saved : SUBSET Sig]
BY DEF Program, Calls, NoCall

LEMMA MaskCall ==
  ASSUME Program, call.op = "mask"
  PROVE  call \in [op : {"mask"}, how : {"block", "unblock", "set"}, set : SUBSET Sig]
BY DEF Program, Calls, NoCall

\* The frame of the C handler that is running.
LEMMA TopFrame ==
  ASSUME Frames, frames # << >>
  PROVE  /\ Len(frames) \in Nat \ {0}
         /\ Len(frames) \in DOMAIN frames
         /\ top \in Frame /\ top.sig \in Sig \ Fixed
         /\ top.at # "hook" => hook
<1>1. Len(frames) \in Nat \ {0} /\ DOMAIN frames = 1 .. Len(frames)
  BY EmptySeq, LenProperties DEF Frames
<1>2. Len(frames) \in DOMAIN frames /\ top \in Frame
  BY <1>1, ElementOfSeq DEF Frames, top
<1>3. QED
  BY <1>1, <1>2 DEF Frames, top, Frame

\* The running C handler goes on to its next step, with the hook set.
LEMMA GoOnFrames ==
  ASSUME Frames, frames # << >>, NEW label \in {"note", "block", "return"}, GoOn(label), hook'
  PROVE  Frames'
<1> DEFINE n == Len(frames)
           new == [top EXCEPT !.at = label]
<1>1. n \in DOMAIN frames /\ top \in Frame /\ top.sig \in Sig \ Fixed
  BY TopFrame
<1>2. new \in Frame /\ new.sig \notin Fixed
  BY <1>1 DEF Frame
<1>3. frames' = [frames EXCEPT ![n] = new]
  BY DEF GoOn, top
<1>4. DOMAIN frames = 1 .. n /\ frames \in Seq(Frame)
  BY LenProperties DEF Frames
<1> HIDE DEF n, new
<1>5. frames' \in Seq(Frame) /\ DOMAIN frames' = DOMAIN frames
  BY <1>1, <1>2, <1>3, <1>4, ExceptSeq DEF n
<1>6. \A k \in DOMAIN frames' : frames'[k].sig \notin Fixed
  BY <1>1, <1>2, <1>3, <1>5 DEF Frames
<1>7. QED
  BY <1>5, <1>6 DEF Frames

\* It returns to what it interrupted.
LEMMA ReturnFrames ==
  ASSUME Frames, frames # << >>, frames' = SubSeq(frames, 1, Len(frames) - 1), UNCHANGED hook
  PROVE  Frames'
<1> DEFINE n == Len(frames)
<1>1. n \in Nat \ {0} /\ frames \in Seq(Frame) /\ DOMAIN frames = 1 .. n
  BY TopFrame, LenProperties DEF Frames
<1> HIDE DEF n
<1>2. \A k \in 1 .. n - 1 : frames[k] \in Frame
  BY <1>1, ElementOfSeq DEF n
<1>3. /\ frames' \in Seq(Frame)
      /\ Len(frames') = n - 1
      /\ \A k \in 1 .. n - 1 : frames'[k] = frames[k]
  <2>1. n - 1 \in Int /\ 1 \in Int /\ frames' = SubSeq(frames, 1, n - 1)
    BY <1>1 DEF n
  <2>2. /\ SubSeq(frames, 1, n - 1) \in Seq(Frame)
        /\ Len(SubSeq(frames, 1, n - 1)) = IF 1 <= n - 1 THEN n - 1 - 1 + 1 ELSE 0
        /\ \A k \in 1 .. n - 1 - 1 + 1 : SubSeq(frames, 1, n - 1)[k] = frames[1 + k - 1]
    BY <2>1, <1>2, SubSeqProperties
  <2>3. QED
    BY <2>1, <2>2, <1>1
<1>4. DOMAIN frames' = 1 .. n - 1
  BY <1>3, LenProperties
<1>5. \A k \in DOMAIN frames' : k \in DOMAIN frames /\ frames'[k] = frames[k]
  BY <1>1, <1>3, <1>4
<1>6. QED
  BY <1>3, <1>5 DEF Frames

\* A new one starts on top of the others.
LEMMA PushFrames ==
  ASSUME Frames, NEW f \in Frame, f.sig \notin Fixed, f.at = "hook",
         frames' = Append(frames, f), UNCHANGED hook
  PROVE  Frames'
<1> DEFINE n == Len(frames)
<1>1. n \in Nat /\ frames \in Seq(Frame) /\ DOMAIN frames = 1 .. n
  BY LenProperties DEF Frames
<1>2. /\ frames' \in Seq(Frame)
      /\ Len(frames') = n + 1
      /\ frames'[n + 1] = f
      /\ \A k \in 1 .. n : frames'[k] = frames[k]
  BY <1>1
<1>3. DOMAIN frames' = 1 .. n + 1
  BY <1>2, LenProperties
<1> HIDE DEF n
<1>4. ASSUME NEW k \in DOMAIN frames'
      PROVE  frames'[k].sig \notin Fixed /\ (frames'[k].at # "hook" => hook)
  <2>1. CASE k = n + 1
    BY <2>1, <1>2
  <2>2. CASE k # n + 1
    BY <2>2, <1>1, <1>2, <1>3 DEF Frames
  <2>3. QED
    BY <2>1, <2>2
<1>5. QED
  BY <1>2, <1>4 DEF Frames
\* An entry that is noted, or no more, is the same otherwise.
LEMMA SetTriggered ==
  ASSUME m_handlers \in [Sig -> Entry], NEW s \in Sig,
         \/ m_handlers' = [m_handlers EXCEPT ![s].triggered = TRUE]
         \/ Untrigger(s)
  PROVE  /\ m_handlers' \in [Sig -> Entry]
         /\ \A t \in Sig : m_handlers'[t].fref = m_handlers[t].fref
         /\ \A t \in Sig : t # s => m_handlers'[t] = m_handlers[t]
         /\ Untrigger(s) => ~ m_handlers'[s].triggered
<1> DEFINE new(b) == [m_handlers[s] EXCEPT !.triggered = b]
<1>1. m_handlers[s] \in Entry
  OBVIOUS
<1>2. CASE m_handlers' = [m_handlers EXCEPT ![s].triggered = TRUE]
  <2>1. new(TRUE) \in Entry /\ new(TRUE).fref = m_handlers[s].fref
    BY <1>1 DEF Entry
  <2>2. m_handlers' = [m_handlers EXCEPT ![s] = new(TRUE)]
    BY <1>2
  <2>3. Untrigger(s) => ~ m_handlers'[s].triggered
    BY DEF Untrigger
  <2> HIDE DEF new
  <2>4. QED
    BY <2>1, <2>2, <2>3
<1>3. CASE Untrigger(s)
  <2>1. new(FALSE) \in Entry /\ new(FALSE).fref = m_handlers[s].fref /\ ~ new(FALSE).triggered
    BY <1>1 DEF Entry
  <2>2. m_handlers' = [m_handlers EXCEPT ![s] = new(FALSE)]
    BY <1>3 DEF Untrigger
  <2> HIDE DEF new
  <2>3. QED
    BY <2>1, <2>2
<1>4. QED
  BY <1>2, <1>3
-----------------------------------------------------------------------------
(* Parts that a step leaves alone.                                          *)

\* Without a step of a C handler the frames stay as they are; the hook may be
\* cleared when there are none.
LEMMA SameFrames ==
  ASSUME Frames, UNCHANGED frames, hook' \in BOOLEAN, hook' = hook \/ frames = << >>
  PROVE  Frames'
BY DEF Frames

\* The table is about the program's place only while a catch() is under way.
LEMMA SameTable ==
  ASSUME Table, UNCHANGED <<m_handlers, refVars>>, at # "installed", at' # "installed"
  PROVE  Table'
BY DEF Table, RefsOwned, HasHandler, Noted, refVars

\* A C handler leaves the program where it is.
LEMMA SamePlace ==
  ASSUME UNCHANGED placeVars
  PROVE  /\ Program => Program'
         /\ \A s \in Sig : (ScanAhead(s) <=> ScanAhead(s)') /\ (Told(s) <=> Told(s)')
BY DEF Program, ScanAhead, Told, First, placeVars

\* The same wherever the program is, if it stays there.
LEMMA SameTableHere ==
  ASSUME Table, UNCHANGED <<m_handlers, refVars, at, call>>
  PROVE  Table'
BY DEF Table, RefsOwned, HasHandler, Noted, refVars

\* Nothing is noted, nor does the program go on.
LEMMA SameNotesHere ==
  ASSUME Notes, UNCHANGED <<m_handlers, noteVars, pastVars, placeVars>>
  PROVE  Notes'
<1>1. \A s \in Sig : (ScanAhead(s) <=> ScanAhead(s)') /\ (Told(s) <=> Told(s)')
  BY SamePlace
<1>2. QED
  BY <1>1 DEF Notes, Noted, HasHandler, noteVars, pastVars, placeVars

\* The program goes on outside of the scan, and does not end a caught().
LEMMA SameNotes ==
  ASSUME Notes, UNCHANGED <<m_handlers, noteVars, pastVars, scan>>,
         at \notin {"unhook", "while", "zero", "scan", "clear"},
         at' \notin {"unhook", "while", "zero", "scan"}
  PROVE  Notes'
<1>1. \A s \in Sig : ~ Told(s) /\ (ScanAhead(s) => ScanAhead(s)')
  BY DEF Told, ScanAhead
<1>2. QED
  BY <1>1 DEF Notes, Noted, HasHandler, noteVars, pastVars
-----------------------------------------------------------------------------
(* Each step keeps the invariant: the kernel and the C handlers.            *)

\* A signal that is sent, or that nobody catches, concerns the kernel alone.
LEMMA SendIInv == ASSUME IInv, NEW s \in Sig, Send(s) \/ Discard(s) PROVE IInv'
<1>1. Kernel'
  BY SignalAssumption DEF IInv, Kernel, Send, Discard
<1>2. UNCHANGED <<noteVars, m_handlers, refVars, frames, placeVars, pastVars>>
  BY DEF Send, Discard
<1>3. Frames' /\ Program' /\ Table' /\ Notes'
  BY <1>2, SameFrames, SamePlace, SameTableHere, SameNotesHere
     DEF IInv, Frames, noteVars, placeVars
<1>4. QED
  BY <1>1, <1>3 DEF IInv

\* A signal that is delivered starts a C handler, and ends sigsuspend().
LEMMA DeliverIInv == ASSUME IInv, NEW s \in Sig, Deliver(s) PROVE IInv'
<1>1. s \in Sig \ Fixed
  BY DEF Deliver, IInv, Kernel
<1>2. action[s] \in Action /\ Plain("default") \in Action
  BY DEF IInv, Kernel, Plain, Action
<1>3. Kernel'
  <2>1. action' \in [Sig -> Action]
    BY <1>2 DEF Deliver, IInv, Kernel
  <2>2. mask' \subseteq Sig
    BY <1>2 DEF Deliver, IInv, Kernel, Action
  <2>3. QED
    BY <2>1, <2>2 DEF Deliver, IInv, Kernel
<1>4. at = "waiting" => call.saved \in SUBSET Sig
  BY SuspendCall DEF IInv, Program
<1>5. Frames'
  <2> DEFINE f == [sig |-> s, at |-> "hook",
                   saved |-> IF at = "waiting" THEN call.saved ELSE mask]
  <2>1. f \in Frame
    BY <1>4 DEF Frame, IInv, Kernel
  <2>2. f.sig \notin Fixed /\ f.at = "hook"
    BY <1>1
  <2>3. frames' = Append(frames, f) /\ UNCHANGED hook
    BY DEF Deliver, noteVars
  <2> HIDE DEF f
  <2>4. QED
    BY <2>1, <2>2, <2>3, PushFrames DEF IInv
<1>6. CASE at = "waiting"
  <2>1. /\ at' = "lua" /\ call' = NoCall
        /\ UNCHANGED <<m_handlers, noteVars, pastVars, scan, refVars>>
    BY <1>6 DEF Deliver
  <2>2. Program'
    BY <1>6, <2>1 DEF IInv, Program, NoCall, Calls
  <2>3. Table' /\ Notes'
    BY <1>6, <2>1, SameTable, SameNotes DEF IInv
  <2>4. QED
    BY <1>3, <1>5, <2>2, <2>3 DEF IInv
<1>7. CASE at # "waiting"
  <2>1. UNCHANGED <<m_handlers, noteVars, pastVars, placeVars, refVars>>
    BY <1>7 DEF Deliver, placeVars
  <2>2. Program' /\ Table' /\ Notes'
    BY <2>1, SamePlace, SameTableHere, SameNotesHere DEF IInv, placeVars
  <2>3. QED
    BY <1>3, <1>5, <2>2 DEF IInv
<1>8. QED
  BY <1>6, <1>7

\* A signal is noted when the hook is set, which the backend finds later.
LEMMA HandlerIInv == IInv /\ HandlerStep => IInv'
<1> SUFFICES ASSUME IInv, HandlerStep PROVE IInv'
  OBVIOUS
<1>1. /\ frames # << >> /\ top \in Frame /\ top.sig \in Sig \ Fixed
      /\ top.at # "hook" => hook
  BY TopFrame DEF HandlerStep, IInv
<1>2. UNCHANGED placeVars /\ Program'
  BY SamePlace DEF HandlerStep, SetHook, Note, Block, Return, IInv
<1>3. CASE SetHook
  <2>1. Frames'
    BY <1>1, <1>3, GoOnFrames DEF SetHook, HookAlways, IInv
  <2>2. Kernel' /\ Table'
    BY <1>3, SameTableHere DEF SetHook, IInv, Kernel, kernelVars, placeVars
  <2>3. Notes'
    <3>1. hook' /\ UNCHANGED <<m_handlers, m_signal, pastVars, placeVars>>
      BY <1>3 DEF SetHook, HookAlways
    <3>2. \A s \in Sig : (ScanAhead(s) <=> ScanAhead(s)') /\ (Told(s) <=> Told(s)')
      BY <3>1, SamePlace
    <3>3. QED
      BY <3>1, <3>2 DEF IInv, Notes, Noted, HasHandler, pastVars
  <2>4. QED
    BY <1>2, <2>1, <2>2, <2>3 DEF IInv
<1>4. CASE Note
  <2> DEFINE sig == top.sig
  <2>1. hook /\ hook' = hook
    BY <1>1, <1>4 DEF Note
  <2>2. Frames'
    BY <1>1, <1>4, <2>1, GoOnFrames DEF Note, IInv
  <2>3. Kernel'
    BY <1>4 DEF Note, IInv, Kernel, kernelVars
  <2>4. /\ m_handlers' = [m_handlers EXCEPT ![sig].triggered = TRUE]
        /\ m_handlers \in [Sig -> Entry] /\ sig \in Sig \ Fixed
        /\ UNCHANGED <<refVars, at, call>>
    BY <1>1, <1>4 DEF Note, IInv, Table, placeVars
  <2> HIDE DEF sig
  <2>5. /\ m_handlers' \in [Sig -> Entry]
        /\ \A s \in Sig : m_handlers'[s].fref = m_handlers[s].fref
        /\ \A s \in Sig : s # sig => m_handlers'[s] = m_handlers[s]
    BY <2>4, SetTriggered
  <2>6. Fixed \subseteq Sig
    BY SignalAssumption
  <2>7. \A s \in Fixed : Noted(s)' <=> Noted(s)
    BY <2>4, <2>5, <2>6 DEF Noted
  <2>8. Table'
    <3>1. {m_handlers'[s].fref : s \in Sig} = {m_handlers[s].fref : s \in Sig}
      BY <2>5
    <3>2. RefsOwned'
      BY <2>4, <2>5, <3>1 DEF IInv, Table, RefsOwned, HasHandler, refVars
    <3>3. QED
      BY <2>4, <2>5, <2>6, <2>7, <3>2 DEF IInv, Table, HasHandler, refVars
  <2>9. Notes'
    <3>1. m_signal' = TRUE /\ news' = news \cup {sig} /\ abandoned' = FALSE
      BY <1>4 DEF Note, sig
    <3>2. \A s \in Sig : (ScanAhead(s) <=> ScanAhead(s)') /\ (Told(s) <=> Told(s)')
      BY <1>2, SamePlace
    <3>3. \A s \in Sig : Noted(s)' => s \in news' \/ Told(s)'
      BY <2>5, <3>1, <3>2 DEF IInv, Notes, Noted
    <3>4. QED
      BY <2>1, <2>4, <3>1, <3>3 DEF IInv, Notes
  <2>10. QED
    BY <1>2, <2>2, <2>3, <2>8, <2>9 DEF IInv
<1>5. CASE Block
  <2>1. Frames'
    BY <1>1, <1>5, GoOnFrames DEF Block, IInv, noteVars
  <2>2. m_handlers[top.sig].blocked \subseteq Sig
    BY <1>1 DEF IInv, Table, Entry
  <2>3. Kernel'
    BY <1>5, <2>2 DEF Block, IInv, Kernel
  <2>4. Table' /\ Notes'
    BY <1>5, SameTableHere, SameNotesHere DEF Block, IInv, placeVars
  <2>5. QED
    BY <1>2, <2>1, <2>3, <2>4 DEF IInv
<1>6. CASE Return
  <2>1. Frames'
    BY <1>1, <1>6, ReturnFrames DEF Return, IInv, noteVars
  <2>2. Kernel'
    BY <1>1, <1>6 DEF Return, IInv, Kernel, Frame
  <2>3. Table' /\ Notes'
    BY <1>6, SameTableHere, SameNotesHere DEF Return, IInv, placeVars
  <2>4. QED
    BY <1>2, <2>1, <2>2, <2>3 DEF IInv
<1>7. QED
  BY <1>3, <1>4, <1>5, <1>6 DEF HandlerStep
-----------------------------------------------------------------------------
(* Each step keeps the invariant: luasigbackend() and the Lua handlers.     *)

\* The backend starts when the hook is set, and clears it when no C handler runs.
LEMMA StartIInv == IInv /\ (RunHook \/ Unhook) => IInv'
<1> SUFFICES ASSUME IInv, RunHook \/ Unhook PROVE IInv'
  OBVIOUS
<1>1. /\ UNCHANGED <<kernelVars, m_handlers, refVars, frames, m_signal, call, sent, pastVars>>
      /\ frames = << >> /\ at \in {"lua", "unhook"} /\ at' \in {"unhook", "while"}
      /\ scan' \in 1 .. Last + 1
  BY SignalAssumption DEF RunHook, Unhook, Lua, InProgram, Goto, noteVars, IInv, Program
<1>2. Kernel' /\ Program'
  BY <1>1 DEF IInv, Kernel, Program, kernelVars
<1>3. hook' \in BOOLEAN
  BY DEF RunHook, Unhook, IInv, Frames, noteVars
<1>4. Frames' /\ Table'
  BY <1>1, <1>3, SameFrames, SameTable DEF IInv
<1>5. Notes'
  <2>1. \A s \in Sig : ~ ScanAhead(s) /\ ~ Told(s)
    BY <1>1 DEF RunHook, Unhook, Lua, ScanAhead, Told, IInv, Program
  <2>2. m_signal' => hook' \/ at' \in {"while", "zero"}
    BY <1>1 DEF RunHook, Unhook, Lua, Goto, noteVars, IInv, Notes
  <2>3. QED
    BY <1>1, <2>1, <2>2 DEF IInv, Notes, Noted, HasHandler, pastVars
<1>6. QED
  BY <1>2, <1>4, <1>5 DEF IInv

\* It scans the table again for as long as m_signal is set, which it clears
\* before the scan: what comes in meanwhile sets it again.
LEMMA AgainIInv == IInv /\ (While \/ Zero \/ EndScan) => IInv'
<1> SUFFICES ASSUME IInv, While \/ Zero \/ EndScan PROVE IInv'
  OBVIOUS
<1>1. /\ UNCHANGED <<kernelVars, m_handlers, refVars, frames, hook, call, sent, pastVars>>
      /\ at \in {"while", "zero", "scan"} /\ at' \in {"zero", "lua", "scan", "while"}
  BY DEF While, Zero, EndScan, Goto, KeepMeanwhile, noteVars
<1>2. Kernel' /\ Frames' /\ Table'
  BY <1>1, SameFrames, SameTable DEF IInv, Kernel, Frames, kernelVars
<1>3. Program' /\ (at' # "lua" => scan' # 0)
  BY <1>1, SignalAssumption DEF While, Zero, EndScan, Goto, IInv, Program
<1>4. \A s \in Sig : ~ Told(s)
  BY <1>1 DEF Told
<1>5. CASE While
  <2>1. \A s \in Sig : ~ ScanAhead(s)
    BY <1>5 DEF While, ScanAhead
  <2>2. m_signal' => at' = "zero"
    BY <1>5 DEF While, Goto, noteVars, IInv, Notes
  <2>3. QED
    BY <1>1, <1>2, <1>3, <1>4, <1>5, <2>1, <2>2
       DEF While, IInv, Notes, Noted, HasHandler, noteVars, pastVars
<1>6. CASE Zero
  <2>1. m_signal' = FALSE /\ scan' = 1 /\ at' = "scan"
    BY <1>6 DEF Zero, Goto
  <2>2. \A s \in Sig : ScanAhead(s)'
    BY <2>1, SignalAssumption DEF ScanAhead, Sig
  <2>3. QED
    BY <1>1, <1>2, <1>3, <1>4, <2>1, <2>2 DEF IInv, Notes, Noted, HasHandler, pastVars
<1>7. CASE EndScan
  <2>1. \A s \in Sig : ~ ScanAhead(s)
    BY <1>7, SignalAssumption DEF EndScan, ScanAhead, Sig, IInv, Program
  <2>2. UNCHANGED m_signal /\ at' = "while"
    BY <1>7 DEF EndScan, Goto, KeepMeanwhile
  <2>3. QED
    BY <1>1, <1>2, <1>3, <1>4, <2>1, <2>2 DEF IInv, Notes, Noted, HasHandler, pastVars
<1>8. QED
  BY <1>5, <1>6, <1>7

\* It calls the handler of the signal it has come to.
LEMMA CallHandlerIInv == IInv /\ CallHandler => IInv'
<1> SUFFICES ASSUME IInv, CallHandler PROVE IInv'
  OBVIOUS
<1>1. /\ UNCHANGED <<kernelVars, noteVars, refVars, frames, scan, call, sent, abandoned>>
      /\ at = "scan" /\ at' = "lua" /\ scan \in Sig /\ news' = news \ {scan}
      /\ Untrigger(scan)
  BY DEF CallHandler, ClearTriggered, Goto
<1>2. scan \in 1 .. Last /\ Fixed \subseteq Sig
  BY <1>1, SignalAssumption DEF Sig
<1>3. /\ m_handlers' \in [Sig -> Entry]
      /\ ~ m_handlers'[scan].triggered
      /\ \A t \in Sig : m_handlers'[t].fref = m_handlers[t].fref
      /\ \A t \in Sig : t # scan => m_handlers'[t] = m_handlers[t]
  BY <1>1, SetTriggered DEF IInv, Table
<1>4. Kernel' /\ Frames' /\ Program'
  BY <1>1, <1>2, SameFrames DEF IInv, Kernel, Frames, Program, kernelVars, noteVars
<1>5. \A s \in Sig : (HasHandler(s)' <=> HasHandler(s)) /\ (Noted(s)' <=> Noted(s) /\ s # scan)
  BY <1>3 DEF HasHandler, Noted
<1>6. Table'
  <2>1. {m_handlers'[s].fref : s \in Sig} = {m_handlers[s].fref : s \in Sig}
    BY <1>3
  <2>2. RefsOwned'
    BY <1>1, <1>3, <1>5, <2>1 DEF IInv, Table, RefsOwned, refVars
  <2>3. QED
    BY <1>1, <1>2, <1>3, <1>5, <2>2 DEF IInv, Table, refVars
<1>7. Notes'
  <2>1. \A s \in Sig : ~ Told(s) /\ (ScanAhead(s) /\ s # scan => ScanAhead(s)')
    BY <1>1, <1>2 DEF Told, ScanAhead, Sig
  <2>2. QED
    BY <1>1, <1>5, <2>1 DEF IInv, Notes, noteVars
<1>8. QED
  BY <1>4, <1>6, <1>7 DEF IInv

\* It goes on to the next signal when there is nothing to call, or after.
LEMMA ScanIInv == IInv /\ (SkipSignal \/ Unblock) => IInv'
<1> SUFFICES ASSUME IInv, SkipSignal \/ Unblock PROVE IInv'
  OBVIOUS
<1>1. /\ UNCHANGED <<action, pending, noteVars, m_handlers, refVars, frames, call, sent, pastVars>>
      /\ at \in {"scan", "unblock"} /\ at' = "scan" /\ scan' = scan + 1
  BY DEF SkipSignal, Unblock, Goto, kernelVars
<1>2. scan \in 1 .. Last
  BY SignalAssumption DEF SkipSignal, Unblock, Sig, IInv, Program
<1>3. mask' \subseteq mask
  BY DEF SkipSignal, Unblock, kernelVars
<1>4. Kernel' /\ Frames' /\ Table'
  BY <1>1, <1>3, SameFrames, SameTable DEF IInv, Kernel, Frames, noteVars
<1>5. Program'
  BY <1>1, <1>2, SignalAssumption DEF IInv, Program
<1>6. \A s \in Sig : ScanAhead(s) /\ Noted(s) /\ HasHandler(s) => ScanAhead(s)'
  BY <1>1, <1>2, SignalAssumption DEF ScanAhead, SkipSignal, Unblock, Sig
<1>7. Notes'
  BY <1>1, <1>6 DEF IInv, Notes, Told, Noted, HasHandler, noteVars, pastVars
<1>8. QED
  BY <1>4, <1>5, <1>7 DEF IInv

\* A Lua handler returns, or fails: then the signals behind it are abandoned,
\* unless m_signal is set and the hook with it.
LEMMA HandlerEndsIInv == IInv /\ (HandlerReturns \/ HandlerFails) => IInv'
<1> SUFFICES ASSUME IInv, HandlerReturns \/ HandlerFails PROVE IInv'
  OBVIOUS
<1>1. /\ UNCHANGED <<kernelVars, noteVars, m_handlers, refVars, frames, call, sent, news>>
      /\ at = "lua" /\ at' \in {"lua", "unblock"} /\ scan # 0
      /\ \/ UNCHANGED <<scan, abandoned>>
         \/ at' = "lua" /\ scan' = 0 /\ abandoned' = ~ m_signal
  BY DEF HandlerReturns, HandlerFails, Lua, Goto, pastVars
<1>2. Kernel' /\ Frames' /\ Table'
  BY <1>1, SameFrames, SameTable DEF IInv, Kernel, Frames, kernelVars, noteVars
<1>3. Program'
  BY <1>1, SignalAssumption DEF IInv, Program
<1>4. CASE UNCHANGED <<scan, abandoned>>
  BY <1>1, <1>2, <1>3, <1>4, SameNotes DEF IInv, pastVars
<1>5. CASE at' = "lua" /\ scan' = 0 /\ abandoned' = ~ m_signal
  BY <1>1, <1>2, <1>3, <1>5 DEF IInv, Notes, Told, Noted, HasHandler, noteVars
<1>6. QED
  BY <1>1, <1>4, <1>5
-----------------------------------------------------------------------------
(* Each step keeps the invariant: the calls.                                *)

\* A call begins in the program or in a Lua handler, with its arguments.
LEMMA BeginIInv == IInv /\ BeginCall => IInv'
<1> SUFFICES ASSUME IInv, BeginCall PROVE IInv'
  OBVIOUS
<1>1. PICK c \in Calls : Begin(c) /\ (c.op \in {"ignore", "default", "caught"} => c.todo # {})
  <2>1. CASE \E how \in {"block", "unblock", "set"}, set \in Sets :
                Begin([op |-> "mask", how |-> how, set |-> set])
    BY <2>1, SignalAssumption DEF Calls
  <2>2. CASE \E set \in Sets : Begin([op |-> "suspend", set |-> set, saved |-> {}])
    BY <2>2, SignalAssumption DEF Calls
  <2>3. CASE \E s \in Sig, option \in Options :
                Begin([op |-> "catch", sig |-> s, option |-> option, old |-> Unused])
    <3>1. Unused \in Entry
      BY DEF Unused, Entry
    <3>2. QED
      BY <2>3, <3>1, SignalAssumption DEF Calls
  <2>4. CASE \E op \in {"ignore", "default", "caught"}, todo \in Sets \ {{}} :
                Begin([op |-> op, todo |-> todo])
    BY <2>4, SignalAssumption DEF Calls
  <2>5. QED
    BY <2>1, <2>2, <2>3, <2>4 DEF BeginCall
<1>2. /\ UNCHANGED <<kernelVars, noteVars, m_handlers, refVars, frames, scan, sent, pastVars>>
      /\ at = "lua" /\ at' = "call" /\ call' = c
  BY <1>1 DEF Begin, Lua, Goto
<1>3. Kernel' /\ Frames' /\ Table' /\ Notes'
  BY <1>2, SameFrames, SameTable, SameNotes
     DEF IInv, Kernel, Frames, kernelVars, noteVars, pastVars
<1>4. Program'
  BY <1>1, <1>2 DEF IInv, Program
<1>5. QED
  BY <1>3, <1>4 DEF IInv

\* The calls that change the mask, and wait for a signal.
LEMMA MaskIInv == IInv /\ (Mask \/ Suspend) => IInv'
<1> SUFFICES ASSUME IInv, Mask \/ Suspend PROVE IInv'
  OBVIOUS
<1>1. /\ UNCHANGED <<action, pending, noteVars, m_handlers, refVars, frames, scan, sent, pastVars>>
      /\ at = "call" /\ at' \in {"lua", "waiting"} /\ call.op \in {"mask", "suspend"}
  BY DEF Mask, Suspend, Doing, Finish, Goto
<1>2. mask \subseteq Sig /\ call.set \subseteq Sig
  BY <1>1, MaskCall, SuspendCall DEF IInv, Kernel, Program
<1>3. mask' \subseteq Sig
  <2>1. CASE Mask
    <3>1. call.how \in {"block", "unblock", "set"}
      BY <2>1, MaskCall DEF IInv, Mask, Doing
    <3>2. QED
      BY <2>1, <3>1, <1>2 DEF Mask
  <2>2. CASE Suspend
    BY <2>2, <1>2 DEF Suspend
  <2>3. QED
    BY <2>1, <2>2
<1>4. Kernel' /\ Frames' /\ Table' /\ Notes'
  BY <1>1, <1>3, SameFrames, SameTable, SameNotes
     DEF IInv, Kernel, Frames, noteVars, pastVars
<1>5. /\ call' \in Calls
      /\ at' = "waiting" => call'.op = "suspend"
      /\ ~ call'.op \in {"ignore", "default", "caught"}
  <2>1. CASE Mask
    BY <2>1 DEF Mask, Finish, Calls, NoCall
  <2>2. CASE Suspend
    <3>1. call \in [op : {"suspend"}, set : SUBSET Sig, saved : SUBSET Sig]
      BY <2>2, SuspendCall DEF IInv, Suspend, Doing
    <3>2. call' = [call EXCEPT !.saved = mask]
      BY <2>2 DEF Suspend
    <3>3. call' \in [op : {"suspend"}, set : SUBSET Sig, saved : SUBSET Sig]
      BY <3>1, <3>2, <1>2
    <3>4. QED
      BY <3>3 DEF Calls
  <2>3. QED
    BY <2>1, <2>2
<1>6. Program'
  BY <1>1, <1>5 DEF IInv, Program
<1>7. QED
  BY <1>4, <1>6 DEF IInv

\* There is a reference left for catch(): only the signals that can be caught
\* have one, and references outnumber them.
LEMMA RefLeft == ASSUME Table, at # "installed" PROVE \E r \in Ref : r \notin refs
<1> DEFINE S == {s \in Sig \ Fixed : HasHandler(s)}
           f == [s \in S |-> m_handlers[s].fref]
           owned == refs \ leaked
<1>1. IsFiniteSet(Sig \ Fixed) /\ IsFiniteSet(S) /\ Cardinality(S) <= Cardinality(Sig \ Fixed)
  <2>1. IsFiniteSet(Sig)
    BY FS_Interval, SignalAssumption DEF Sig
  <2>2. IsFiniteSet(Sig \ Fixed)
    BY <2>1, FS_Difference
  <2>3. QED
    BY <2>2, FS_Subset
<1>2. owned \subseteq {m_handlers[s].fref : s \in S}
  BY DEF Table, RefsOwned, HasHandler
<1>3. /\ refs \subseteq Ref /\ IsFiniteSet(Ref)
      /\ leaked \subseteq refs /\ Cardinality(leaked) <= MaxLeaked
  BY SignalAssumption DEF Table, RefsOwned
<1>4. owned = {m_handlers[s].fref : s \in S}
  BY <1>2 DEF Table, RefsOwned, HasHandler
<1>5. f \in Surjection(S, owned)
  <2>1. f \in [S -> owned]
    BY <1>4
  <2>2. \A r \in owned : \E s \in S : f[s] = r
    BY <1>4
  <2> HIDE DEF f, owned
  <2>3. QED
    BY <2>1, <2>2 DEF Surjection
<1>6. refs = owned \cup leaked
  BY <1>3
<1>7. IsFiniteSet(owned) /\ IsFiniteSet(leaked)
  BY <1>3, FS_Subset
<1> HIDE DEF f, S, owned
<1>8. Cardinality(owned) <= Cardinality(S)
  BY <1>1, <1>5, FS_Surjection
<1>9. Cardinality(refs) <= Cardinality(owned) + Cardinality(leaked)
  <2>1. /\ Cardinality(refs) = Cardinality(owned) + Cardinality(leaked) - Cardinality(owned \cap leaked)
        /\ IsFiniteSet(owned \cap leaked)
    BY <1>6, <1>7, FS_Union, FS_Intersection
  <2>2. Cardinality(owned \cap leaked) \in Nat
    BY <2>1, FS_CardinalityType
  <2>3. Cardinality(owned) \in Nat /\ Cardinality(leaked) \in Nat
    BY <1>7, FS_CardinalityType
  <2>4. QED
    BY <2>1, <2>2, <2>3
<1>10. /\ Cardinality(owned) \in Nat /\ Cardinality(leaked) \in Nat /\ Cardinality(Ref) \in Nat
       /\ Cardinality(S) \in Nat /\ Cardinality(Sig \ Fixed) \in Nat
  BY <1>1, <1>3, <1>7, FS_CardinalityType
<1>11. Cardinality(refs) < Cardinality(Ref)
  <2>1. MaxLeaked \in Nat /\ Cardinality(Ref) > Cardinality(Sig \ Fixed) + MaxLeaked
    BY SignalAssumption
  <2>2. Cardinality(refs) \in Nat
    BY <1>3, FS_Subset, FS_CardinalityType
  <2>3. QED
    BY <1>1, <1>3, <1>8, <1>9, <1>10, <2>1, <2>2
<1>12. refs # Ref
  BY <1>10, <1>11
<1>13. QED
  BY <1>3, <1>12

\* catch() gives the signal an entry of its own, and keeps the old one aside.
LEMMA InstallIInv == IInv /\ Install => IInv'
<1> SUFFICES ASSUME IInv, Install PROVE IInv'
  OBVIOUS
<1> DEFINE sig == call.sig
           old == m_handlers[sig]
<1>1. /\ at = "call" /\ at' = "installed"
      /\ UNCHANGED <<kernelVars, noteVars, leaked, frames, scan, sent, abandoned>>
      /\ call \in [op : {"catch"}, sig : Sig, option : Option, old : Entry]
      /\ call' = [call EXCEPT !.old = old] /\ news' = news \ {sig}
  BY CatchCall DEF Install, Doing, Goto, IInv
<1>2. sig \in Sig /\ m_handlers \in [Sig -> Entry] /\ old \in Entry /\ call.option \in Option
  BY <1>1 DEF IInv, Table
<1>3. PICK r \in Ref \cup {NoRef} : /\ r \notin refs
                                    /\ m_handlers' = [m_handlers EXCEPT ![sig] = NewEntry(r)]
                                    /\ refs' = RefTaken(r)
  <2>1. \E r \in Ref : r \notin refs
    BY <1>1, RefLeft DEF IInv
  <2>2. NoRef \notin refs
    BY SignalAssumption DEF IInv, Table
  <2>3. QED
    BY <2>1, <2>2 DEF Install, FunctionRef
<1>4. refs' = refs \cup ({r} \ {NoRef})
  BY <1>3 DEF RefTaken
<1>5. NewEntry(r) \in Entry /\ NewEntry(r).fref = r /\ NewEntry(r).triggered = FALSE
  BY <1>2, <1>3 DEF NewEntry, Entry, Option
<1>6. /\ call' \in [op : {"catch"}, sig : Sig, option : Option, old : Entry]
      /\ call'.op = "catch" /\ call'.sig = sig /\ call'.old = old
  BY <1>1, <1>2
<1> HIDE DEF old
<1>7. /\ m_handlers' \in [Sig -> Entry]
      /\ m_handlers'[sig].fref = r /\ ~ m_handlers'[sig].triggered
      /\ \A s \in Sig : s # sig => m_handlers'[s] = m_handlers[s]
  BY <1>2, <1>3, <1>5
<1>8. \A s \in Sig : /\ m_handlers[s].fref # NoRef => m_handlers[s].fref \in refs
                     /\ m_handlers[s].fref = NoRef \/ m_handlers[s].fref # r
  BY <1>3 DEF IInv, Table, RefsOwned
<1>9. RefsOwned'
  <2>1. refs \ leaked = {m_handlers[s].fref : s \in Sig} \ {NoRef} /\ leaked \subseteq refs
    BY <1>1 DEF IInv, Table, RefsOwned
  <2>2. refs' \ leaked' = ({m_handlers'[s].fref : s \in Sig} \cup {old.fref}) \ {NoRef}
    <3>1. ASSUME NEW x \in refs' \ leaked'
          PROVE  x \in ({m_handlers'[s].fref : s \in Sig} \cup {old.fref}) \ {NoRef}
      <4>1. x = r \/ x \in refs \ leaked
        BY <1>1, <1>4, <3>1
      <4> QED
        BY <1>1, <1>2, <1>4, <1>7, <2>1, <3>1, <4>1, SignalAssumption DEF old, IInv, Table
    <3>2. ASSUME NEW x \in ({m_handlers'[s].fref : s \in Sig} \cup {old.fref}) \ {NoRef}
          PROVE  x \in refs' \ leaked'
      <4>1. x = r \/ x \in refs \ leaked
        BY <1>2, <1>7, <2>1, <3>2 DEF old
      <4> QED
        BY <1>1, <1>3, <1>4, <2>1, <3>2, <4>1
    <3>3. QED
      BY <3>1, <3>2
  <2>3. \A s, t \in Sig : HasHandler(s)' /\ m_handlers'[s].fref = m_handlers'[t].fref => s = t
    <3>1. \A s, t \in Sig : HasHandler(s) /\ m_handlers[s].fref = m_handlers[t].fref => s = t
      BY DEF IInv, Table, RefsOwned
    <3>2. QED
      BY <1>7, <1>8, <3>1 DEF HasHandler
  <2>4. leaked' \subseteq refs'
    BY <1>1, <1>4, <2>1
  <2>5. QED
    BY <1>1, <1>6, <2>2, <2>3, <2>4 DEF RefsOwned
<1>10. Table'
  <2>1. refs' \subseteq Ref
    BY <1>3, <1>4 DEF IInv, Table
  <2>2. \A s \in Fixed : ~ Noted(s)' /\ (HasHandler(s)' => s = sig)
    BY <1>1, <1>7, SignalAssumption DEF IInv, Table, Noted, HasHandler
  <2>3. old.fref # NoRef => \A s \in Sig : m_handlers'[s].fref # old.fref
    BY <1>2, <1>7, <1>8 DEF IInv, Table, RefsOwned, HasHandler, old
  <2>4. sig \in Fixed => old.fref = NoRef /\ ~ old.triggered
    BY <1>1 DEF IInv, Table, Noted, HasHandler, old
  <2>5. Cardinality(leaked') <= MaxLeaked
    BY <1>1 DEF IInv, Table
  <2>6. QED
    BY <1>1, <1>6, <1>7, <1>9, <2>1, <2>2, <2>3, <2>4, <2>5 DEF Table
<1>11. Kernel' /\ Frames' /\ Program'
  BY <1>1, <1>6, SameFrames DEF IInv, Kernel, Frames, Program, Calls, kernelVars, noteVars
<1>12. Notes'
  <2>1. \A s \in Sig : Noted(s)' => Noted(s) /\ s # sig /\ (HasHandler(s)' => HasHandler(s))
    BY <1>7 DEF Noted, HasHandler
  <2>2. \A s \in Sig : ~ Told(s) /\ (ScanAhead(s) => ScanAhead(s)')
    BY <1>1 DEF Told, ScanAhead
  <2>3. QED
    BY <1>1, <2>1, <2>2 DEF IInv, Notes, noteVars
<1>13. QED
  BY <1>10, <1>11, <1>12 DEF IInv

\* catch() takes a reference, raises an error and leaks it.
LEMMA CatchRaisesIInv == IInv /\ CatchRaises => IInv'
<1> SUFFICES ASSUME IInv, CatchRaises PROVE IInv'
  OBVIOUS
<1>1. /\ at = "call" /\ at' = "lua" /\ call' = NoCall /\ Cardinality(leaked) < MaxLeaked
      /\ UNCHANGED <<kernelVars, noteVars, m_handlers, frames, scan, sent, pastVars>>
  BY DEF CatchRaises, Doing, Finish
<1>2. PICK r \in Ref \cup {NoRef} : /\ r \notin refs
                                    /\ refs' = refs \cup ({r} \ {NoRef})
                                    /\ leaked' = leaked \cup ({r} \ {NoRef})
  <2>1. \E r \in Ref : r \notin refs
    BY <1>1, RefLeft DEF IInv
  <2>2. NoRef \notin refs
    BY SignalAssumption DEF IInv, Table
  <2>3. QED
    BY <2>1, <2>2 DEF CatchRaises, FunctionRef, RefTaken
<1>3. Kernel' /\ Frames' /\ Notes'
  BY <1>1, SameFrames, SameNotes DEF IInv, Kernel, Frames, kernelVars, noteVars
<1>4. Program'
  BY <1>1 DEF IInv, Program, NoCall, Calls
<1>5. RefsOwned'
  BY <1>1, <1>2 DEF IInv, Table, RefsOwned, HasHandler
<1>6. Cardinality(leaked') <= MaxLeaked
  <2>1. IsFiniteSet(leaked)
    BY SignalAssumption, FS_Subset DEF IInv, Table, RefsOwned
  <2>2. Cardinality(leaked) \in Nat /\ MaxLeaked \in Nat
    BY <2>1, FS_CardinalityType, SignalAssumption
  <2>3. CASE r = NoRef
    BY <1>1, <1>2, <2>2, <2>3
  <2>4. CASE r # NoRef
    <3>1. leaked' = leaked \cup {r} /\ r \notin leaked
      BY <1>2, <2>4 DEF IInv, Table, RefsOwned
    <3>2. Cardinality(leaked') = Cardinality(leaked) + 1
      BY <2>1, <3>1, FS_AddElement
    <3>3. QED
      BY <1>1, <2>2, <3>2
  <2>5. QED
    BY <2>3, <2>4
<1>7. Table'
  BY <1>1, <1>2, <1>5, <1>6 DEF IInv, Table, Noted, HasHandler
<1>8. QED
  BY <1>3, <1>4, <1>7 DEF IInv

\* sigaction() succeeds for a signal that is not fixed.
LEMMA SetActionKernel ==
  ASSUME Kernel, NEW s \in Sig, NEW how \in Action, SetAction(s, how), UNCHANGED <<mask, sent>>
  PROVE  Kernel'
BY DEF Kernel, SetAction

\* catch() gives the old function back ...
LEMMA CatchDoneIInv == IInv /\ CatchDone => IInv'
<1> SUFFICES ASSUME IInv, CatchDone PROVE IInv'
  OBVIOUS
<1>1. /\ at = "installed" /\ at' = "lua" /\ call' = NoCall /\ call.sig \notin Fixed
      /\ UNCHANGED <<mask, noteVars, leaked, m_handlers, frames, scan, sent, pastVars>>
      /\ refs' = refs \ {call.old.fref}
      /\ call \in [op : {"catch"}, sig : Sig, option : Option, old : Entry]
  BY CatchCall DEF CatchDone, Doing, Finish, UnrefOld, IInv
<1>2. Kernel'
  <2> DEFINE how == [kind |-> "catch", mask |-> call.option.set,
                     nodefer |-> call.option.nodefer, reset |-> call.option.reset]
  <2>1. how \in Action /\ call.sig \in Sig
    BY <1>1 DEF Action, Option
  <2>2. SetAction(call.sig, how) /\ UNCHANGED <<mask, sent>>
    BY <1>1 DEF CatchDone
  <2> HIDE DEF how
  <2>3. QED
    BY <2>1, <2>2, SetActionKernel DEF IInv
<1>3. Frames' /\ Notes'
  BY <1>1, SameFrames, SameNotes DEF IInv, Frames, noteVars
<1>4. Program'
  BY <1>1 DEF IInv, Program, NoCall, Calls
<1>5. Table'
  <2>1. RefsOwned'
    <3>1. /\ refs \ leaked = ({m_handlers[s].fref : s \in Sig} \cup {call.old.fref}) \ {NoRef}
          /\ leaked \subseteq refs
          /\ \A s, t \in Sig : HasHandler(s) /\ m_handlers[s].fref = m_handlers[t].fref => s = t
          /\ call.old.fref # NoRef => \A s \in Sig : m_handlers[s].fref # call.old.fref
      BY <1>1 DEF IInv, Table, RefsOwned
    <3>2. call.old.fref \notin leaked
      BY <1>1, <3>1, SignalAssumption DEF IInv, Table
    <3>3. refs' \ leaked' = {m_handlers'[s].fref : s \in Sig} \ {NoRef} /\ leaked' \subseteq refs'
      BY <1>1, <3>1, <3>2
    <3>4. QED
      BY <1>1, <3>1, <3>3 DEF RefsOwned, HasHandler
  <2>2. QED
    BY <1>1, <2>1 DEF IInv, Table, Noted, HasHandler
<1>6. QED
  BY <1>2, <1>3, <1>4, <1>5 DEF IInv

\* ... or puts the old entry back and gives the new function up.
LEMMA CatchFailsIInv == IInv /\ CatchFails => IInv'
<1> SUFFICES ASSUME IInv, CatchFails PROVE IInv'
  OBVIOUS
<1> DEFINE sig == call.sig
           old == call.old
<1>1. /\ at = "installed" /\ at' = "lua" /\ call' = NoCall /\ sig \in Fixed
      /\ UNCHANGED <<kernelVars, noteVars, leaked, frames, scan, sent, pastVars>>
      /\ m_handlers' = [m_handlers EXCEPT ![sig] = old]
      /\ refs' = refs \ {m_handlers[sig].fref}
      /\ sig \in Sig /\ old \in Entry /\ m_handlers \in [Sig -> Entry]
      /\ old.fref = NoRef /\ ~ old.triggered
  BY CatchCall DEF CatchFails, Doing, Finish, IInv, Table
<1> HIDE DEF old, sig
<1>2. /\ m_handlers' \in [Sig -> Entry]
      /\ m_handlers'[sig].fref = NoRef /\ ~ m_handlers'[sig].triggered
      /\ \A s \in Sig : s # sig => m_handlers'[s] = m_handlers[s]
  BY <1>1
<1>3. Kernel' /\ Frames'
  BY <1>1, SameFrames DEF IInv, Kernel, Frames, kernelVars, noteVars
<1>4. Program'
  BY <1>1 DEF IInv, Program, NoCall, Calls
<1>5. \A s \in Sig : /\ Noted(s)' <=> Noted(s) /\ s # sig
                     /\ HasHandler(s)' <=> HasHandler(s) /\ s # sig
  BY <1>2 DEF Noted, HasHandler
<1>6. RefsOwned'
  <2>1. /\ refs \ leaked = {m_handlers[s].fref : s \in Sig} \ {NoRef} /\ leaked \subseteq refs
        /\ \A s, t \in Sig : HasHandler(s) /\ m_handlers[s].fref = m_handlers[t].fref => s = t
    BY <1>1 DEF IInv, Table, RefsOwned, old
  <2>2. /\ refs' \ leaked' = {m_handlers'[s].fref : s \in Sig} \ {NoRef}
        /\ leaked' \subseteq refs'
    <3>1. m_handlers[sig].fref \notin leaked
      BY <1>1, <2>1, SignalAssumption DEF IInv, Table
    <3>2. \A s \in Sig : s # sig /\ m_handlers[s].fref # NoRef => m_handlers[s].fref # m_handlers[sig].fref
      BY <1>1, <2>1 DEF HasHandler
    <3>3. {m_handlers'[s].fref : s \in Sig} \ {NoRef}
             = ({m_handlers[s].fref : s \in Sig} \ {NoRef}) \ {m_handlers[sig].fref}
      BY <1>1, <1>2, <3>2
    <3>4. QED
      BY <1>1, <2>1, <3>1, <3>3
  <2>3. \A s, t \in Sig : HasHandler(s)' /\ m_handlers'[s].fref = m_handlers'[t].fref => s = t
    BY <1>2, <2>1 DEF HasHandler
  <2>4. QED
    BY <1>1, <2>2, <2>3 DEF RefsOwned
<1>7. Table'
  <2>1. refs' \subseteq Ref
    BY <1>1 DEF IInv, Table
  <2>2. \A s \in Fixed : ~ Noted(s)' /\ ~ HasHandler(s)'
    BY <1>1, <1>5, SignalAssumption DEF IInv, Table, sig
  <2>3. Cardinality(leaked') <= MaxLeaked
    BY <1>1 DEF IInv, Table
  <2>4. QED
    BY <1>1, <1>2, <1>6, <2>1, <2>2, <2>3 DEF Table
<1>8. Notes'
  <2>1. \A s \in Sig : ~ Told(s) /\ (ScanAhead(s) => ScanAhead(s)')
    BY <1>1 DEF Told, ScanAhead
  <2>2. QED
    BY <1>1, <1>5, <2>1 DEF IInv, Notes, noteVars, pastVars
<1>9. QED
  BY <1>3, <1>4, <1>7, <1>8 DEF IInv

\* ignore() and default() first tell the kernel ...
LEMMA GiveUpIInv == IInv /\ GiveUp => IInv'
<1> SUFFICES ASSUME IInv, GiveUp PROVE IInv'
  OBVIOUS
<1>1. /\ at = "call" /\ at' = "clear" /\ call.op \in {"ignore", "default"}
      /\ UNCHANGED <<mask, noteVars, m_handlers, refVars, frames, scan, call, sent, pastVars>>
  BY DEF GiveUp, Doing, Goto
<1>2. Kernel'
  <2>1. First \in Sig
    BY <1>1, FirstInTodo DEF IInv
  <2>2. Plain(call.op) \in Action
    BY <1>1 DEF Plain, Action
  <2>3. QED
    BY <1>1, <2>1, <2>2, SetActionKernel DEF GiveUp, IInv
<1>3. Frames' /\ Table' /\ Notes'
  BY <1>1, SameFrames, SameTable, SameNotes DEF IInv, Frames, noteVars
<1>4. Program'
  BY <1>1 DEF IInv, Program
<1>5. QED
  BY <1>2, <1>3, <1>4 DEF IInv

\* When a signal is seen to, the call goes on to the next one or is over.
LEMMA NextSignalProgram ==
  ASSUME Program, at = "clear", NextSignal, UNCHANGED scan
  PROVE  Program' /\ at' \in {"lua", "call"}
<1> DEFINE rest == call.todo \ {First}
<1>1. call \in [op : {"ignore", "default", "caught"}, todo : SUBSET Sig]
  BY DEF Program, Calls, NoCall
<1>2. First \in call.todo
  BY FirstInTodo DEF Program
<1>3. CASE call.todo = {First}
  BY <1>3 DEF NextSignal, Finish, Program, NoCall, Calls
<1>4. CASE call.todo # {First}
  <2>1. at' = "call" /\ call' = [call EXCEPT !.todo = rest]
    BY <1>4 DEF NextSignal, Goto
  <2>2. rest # {} /\ rest \subseteq Sig
    BY <1>1, <1>2, <1>4
  <2> HIDE DEF rest
  <2>3. call' \in [op : {"ignore", "default", "caught"}, todo : SUBSET Sig] /\ call'.todo = rest
    BY <1>1, <2>1, <2>2
  <2>4. call' \in Calls
    BY <2>3 DEF Calls
  <2>5. QED
    BY <2>1, <2>2, <2>3, <2>4 DEF Program
<1>5. QED
  BY <1>3, <1>4

\* ... and then clear the entry and give the function back.
LEMMA ClearEntryIInv == IInv /\ ClearEntry => IInv'
<1> SUFFICES ASSUME IInv, ClearEntry PROVE IInv'
  OBVIOUS
<1>1. PICK sig \in Sig : sig = First
  BY FirstInTodo DEF ClearEntry, Doing, IInv
<1>2. /\ at = "clear" /\ call.op # "caught"
      /\ UNCHANGED <<kernelVars, noteVars, leaked, frames, scan, sent, abandoned>>
      /\ m_handlers' = [m_handlers EXCEPT ![sig] = Unused]
      /\ refs' = refs \ {m_handlers[sig].fref}
      /\ news' = news \ {sig}
      /\ m_handlers \in [Sig -> Entry]
  BY <1>1 DEF ClearEntry, Doing, Cleared, IInv, Table
<1>3. Program' /\ at' \in {"lua", "call"}
  BY <1>2, NextSignalProgram DEF ClearEntry, IInv
<1>4. Unused \in Entry /\ Unused.fref = NoRef /\ ~ Unused.triggered
  BY DEF Unused, Entry
<1>5. /\ m_handlers' \in [Sig -> Entry]
      /\ m_handlers'[sig].fref = NoRef /\ ~ m_handlers'[sig].triggered
      /\ \A s \in Sig : s # sig => m_handlers'[s] = m_handlers[s]
  BY <1>2, <1>4
<1>6. Kernel' /\ Frames'
  BY <1>2, SameFrames DEF IInv, Kernel, Frames, kernelVars, noteVars
<1>7. \A s \in Sig : /\ Noted(s)' <=> Noted(s) /\ s # sig
                     /\ HasHandler(s)' <=> HasHandler(s) /\ s # sig
  BY <1>5 DEF Noted, HasHandler
<1>8. RefsOwned'
  <2>1. /\ refs \ leaked = {m_handlers[s].fref : s \in Sig} \ {NoRef} /\ leaked \subseteq refs
        /\ \A s, t \in Sig : HasHandler(s) /\ m_handlers[s].fref = m_handlers[t].fref => s = t
    BY <1>2 DEF IInv, Table, RefsOwned
  <2>2. /\ refs' \ leaked' = {m_handlers'[s].fref : s \in Sig} \ {NoRef}
        /\ leaked' \subseteq refs'
    <3>1. m_handlers[sig].fref \notin leaked
      BY <1>2, <2>1, SignalAssumption DEF IInv, Table
    <3>2. \A s \in Sig : s # sig /\ m_handlers[s].fref # NoRef => m_handlers[s].fref # m_handlers[sig].fref
      BY <1>2, <2>1 DEF HasHandler
    <3>3. {m_handlers'[s].fref : s \in Sig} \ {NoRef}
             = ({m_handlers[s].fref : s \in Sig} \ {NoRef}) \ {m_handlers[sig].fref}
      BY <1>2, <1>5, <3>2
    <3>4. QED
      BY <1>2, <2>1, <3>1, <3>3
  <2>3. \A s, t \in Sig : HasHandler(s)' /\ m_handlers'[s].fref = m_handlers'[t].fref => s = t
    BY <1>5, <2>1 DEF HasHandler
  <2>4. QED
    BY <1>3, <2>2, <2>3 DEF RefsOwned
<1>9. Table'
  <2>1. refs' \subseteq Ref
    BY <1>2 DEF IInv, Table
  <2>2. \A s \in Fixed : ~ Noted(s)' /\ ~ HasHandler(s)'
    BY <1>2, <1>7, SignalAssumption DEF IInv, Table
  <2>3. Cardinality(leaked') <= MaxLeaked
    BY <1>2 DEF IInv, Table
  <2>4. QED
    BY <1>3, <1>5, <1>8, <2>1, <2>2, <2>3 DEF Table
<1>10. Notes'
  <2>1. \A s \in Sig : ~ Told(s) /\ (ScanAhead(s) => ScanAhead(s)')
    BY <1>2, <1>3 DEF Told, ScanAhead
  <2>2. QED
    BY <1>2, <1>7, <2>1 DEF IInv, Notes, noteVars
<1>11. QED
  BY <1>3, <1>6, <1>9, <1>10 DEF IInv

\* caught() reads whether a signal was noted, and then clears that.
LEMMA ReadCaughtIInv == IInv /\ ReadCaught => IInv'
<1> SUFFICES ASSUME IInv, ReadCaught PROVE IInv'
  OBVIOUS
<1>1. /\ at = "call" /\ at' = "clear" /\ call.op = "caught"
      /\ UNCHANGED <<kernelVars, noteVars, m_handlers, refVars, frames, scan, call, sent, abandoned>>
      /\ news' = IF Noted(First) THEN news \ {First} ELSE news
  BY DEF ReadCaught, Doing, Goto
<1>2. Kernel' /\ Frames' /\ Table'
  BY <1>1, SameFrames, SameTable DEF IInv, Kernel, Frames, kernelVars, noteVars
<1>3. Program'
  BY <1>1 DEF IInv, Program
<1>4. First' = First
  BY <1>1 DEF First
<1>5. \A s \in Sig : Noted(s) => s \in news' \/ Told(s)'
  BY <1>1, <1>4 DEF IInv, Notes, Told
<1>6. \A s \in Sig : ScanAhead(s) => ScanAhead(s)'
  BY <1>1 DEF ScanAhead
<1>7. Notes'
  BY <1>1, <1>5, <1>6 DEF IInv, Notes, Noted, HasHandler, noteVars
<1>8. QED
  BY <1>2, <1>3, <1>7 DEF IInv

\* What came in between the two steps is lost, though noted.
LEMMA ClearCaughtIInv == IInv /\ ClearCaught => IInv'
<1> SUFFICES ASSUME IInv, ClearCaught PROVE IInv'
  OBVIOUS
<1>1. PICK sig \in Sig : sig = First
  BY FirstInTodo DEF ClearCaught, Doing, IInv
<1>2. /\ at = "clear" /\ call.op = "caught"
      /\ UNCHANGED <<kernelVars, noteVars, refVars, frames, scan, sent, pastVars>>
      /\ Untrigger(sig)
      /\ m_handlers \in [Sig -> Entry]
  BY <1>1 DEF ClearCaught, Doing, IInv, Table
<1>3. Program' /\ at' \in {"lua", "call"}
  BY <1>2, NextSignalProgram DEF ClearCaught, IInv
<1>4. /\ m_handlers' \in [Sig -> Entry]
      /\ \A s \in Sig : m_handlers'[s].fref = m_handlers[s].fref
      /\ \A s \in Sig : s # sig => m_handlers'[s] = m_handlers[s]
      /\ ~ m_handlers'[sig].triggered
  BY <1>2, SetTriggered
<1>5. Kernel' /\ Frames'
  BY <1>2, SameFrames DEF IInv, Kernel, Frames, kernelVars, noteVars
<1>6. \A s \in Sig : (HasHandler(s)' <=> HasHandler(s)) /\ (Noted(s)' <=> Noted(s) /\ s # sig)
  BY <1>4 DEF HasHandler, Noted
<1>7. Table'
  <2>1. {m_handlers'[s].fref : s \in Sig} = {m_handlers[s].fref : s \in Sig}
    BY <1>4
  <2>2. RefsOwned'
    BY <1>2, <1>3, <1>4, <1>6, <2>1 DEF IInv, Table, RefsOwned, refVars
  <2>3. QED
    BY <1>2, <1>3, <1>4, <1>6, <2>2, SignalAssumption DEF IInv, Table, refVars
<1>8. Notes'
  <2>1. \A s \in Sig : (Told(s) => s = sig) /\ (ScanAhead(s) => ScanAhead(s)')
    BY <1>1, <1>2, <1>3 DEF Told, ScanAhead
  <2>2. QED
    BY <1>2, <1>6, <2>1 DEF IInv, Notes, noteVars, pastVars
<1>9. QED
  BY <1>3, <1>5, <1>7, <1>8 DEF IInv
-----------------------------------------------------------------------------
(* The theorems.                                                            *)

\* Nothing is caught, pending or noted at first.
LEMMA InitIInv == Init => IInv
<1> SUFFICES ASSUME Init PROVE IInv
  OBVIOUS
<1>1. Plain("default") \in Action /\ Unused \in Entry /\ Unused.fref = NoRef /\ ~ Unused.triggered
  BY DEF Plain, Action, Unused, Entry
<1>2. Kernel
  BY <1>1, SignalAssumption DEF Init, Kernel
<1>3. Frames
  <2>1. frames \in Seq(Frame) /\ Len(frames) = 0 /\ hook = FALSE
    BY EmptySeq DEF Init
  <2>2. DOMAIN frames = 1 .. 0
    BY <2>1, LenProperties
  <2>3. \A k \in DOMAIN frames : FALSE
    BY <2>2
  <2>4. QED
    BY <2>1, <2>3 DEF Frames
<1>4. Program
  BY SignalAssumption DEF Init, Program, NoCall, Calls
<1>5. \A s \in Sig : m_handlers[s] = Unused
  BY DEF Init
<1>6. Table
  <2>1. \A s \in Sig : ~ Noted(s) /\ ~ HasHandler(s)
    BY <1>1, <1>5 DEF Noted, HasHandler
  <2>2. RefsOwned
    BY <1>1, <1>5, <2>1 DEF Init, RefsOwned
  <2>3. QED
    BY <1>1, <2>1, <2>2, SignalAssumption, FS_EmptySet DEF Init, Table
<1>7. Notes
  BY <1>1, <1>5 DEF Init, Notes, Noted
<1>8. QED
  BY <1>2, <1>3, <1>4, <1>6, <1>7 DEF IInv

\* Every step, by the C handlers, the backend or the program, keeps it.
LEMMA NextIInv == IInv /\ [Next]_vars => IInv'
<1> SUFFICES ASSUME IInv, [Next]_vars PROVE IInv'
  OBVIOUS
<1>1. CASE Next
  <2>1. CASE \E s \in Sig : Send(s) \/ Discard(s) \/ Deliver(s)
    <3>1. PICK s \in Sig : Send(s) \/ Discard(s) \/ Deliver(s)
      BY <2>1
    <3>2. CASE Send(s) \/ Discard(s)
      BY <3>2, SendIInv
    <3>3. CASE Deliver(s)
      BY <3>3, DeliverIInv
    <3>4. QED
      BY <3>1, <3>2, <3>3
  <2>2. CASE HandlerStep
    BY <2>2, HandlerIInv
  <2>3. CASE Backend
    BY <2>3, StartIInv, AgainIInv, CallHandlerIInv, ScanIInv DEF Backend
  <2>4. CASE HandlerReturns \/ HandlerFails
    BY <2>4, HandlerEndsIInv
  <2>5. CASE BeginCall
    BY <2>5, BeginIInv
  <2>6. CASE Call
    BY <2>6, MaskIInv, InstallIInv, CatchRaisesIInv, CatchDoneIInv, CatchFailsIInv, GiveUpIInv, ClearEntryIInv,
       ReadCaughtIInv, ClearCaughtIInv DEF Call
  <2>7. QED
    BY <1>1, <2>1, <2>2, <2>3, <2>4, <2>5, <2>6 DEF Next
<1>2. CASE UNCHANGED vars
  <2>1. UNCHANGED <<kernelVars, m_handlers, noteVars, pastVars, placeVars, refVars, frames, sent>>
    BY <1>2 DEF vars
  <2>2. Kernel'
    BY <2>1 DEF IInv, Kernel, kernelVars
  <2>3. Frames' /\ Program' /\ Table' /\ Notes'
    BY <2>1, SameFrames, SamePlace, SameTableHere, SameNotesHere
       DEF IInv, Frames, noteVars, placeVars
  <2>4. QED
    BY <2>2, <2>3 DEF IInv
<1>3. QED
  BY <1>1, <1>2

\* The parts of the state stay consistent with each other, at whichever step of
\* the module a signal comes in.
THEOREM Invariance == Spec => []IInv
<1>1. QED
  BY InitIInv, NextIInv, PTL DEF Spec

\* The variables keep their types; above all the C handlers' stack and the scan
\* stay within the table of signals.
THEOREM TypeCorrect == Spec => []TypeOK
<1>1. IInv => TypeOK
  BY SignalAssumption DEF IInv, Kernel, Frames, Frame, Program, Table, RefsOwned, Notes, TypeOK
<1>2. QED
  BY <1>1, Invariance, PTL

\* No signal that was noted and has a handler is forgotten: the hook is set, or
\* the backend has still to come to it, unless a handler failed.
THEOREM NotForgotten == Spec => []NoneForgotten
<1>1. IInv => NoneForgotten
  <2> SUFFICES ASSUME IInv, InProgram, NEW s \in Sig, Noted(s), HasHandler(s)
               PROVE  hook \/ Ahead(s) \/ abandoned
    BY DEF NoneForgotten
  <2>1. m_signal \/ abandoned \/ ScanAhead(s)
    BY DEF IInv, Notes
  <2>2. m_signal => hook \/ Ahead(s)
    BY DEF IInv, Notes, Program, Ahead
  <2>3. ScanAhead(s) => Ahead(s)
    BY SignalAssumption DEF ScanAhead, Ahead, IInv, Program, Sig
  <2>4. QED
    BY <2>1, <2>2, <2>3
<1>2. QED
  BY <1>1, Invariance, PTL

\* Every reference in the registry belongs to one entry of the table, to the
\* catch() under way, or to one that raised an error when it had taken it, which
\* is the one way to leak a reference.
THEOREM Owned == Spec => []RefsOwned
<1>1. IInv => RefsOwned
  BY DEF IInv, Table
<1>2. QED
  BY <1>1, Invariance, PTL

\* The Lua handlers are called, and caught() tells, of signals that came in
\* since they were last told of.
THEOREM CalledForCause == Spec => []NoSpuriousCall
<1>1. IInv => NoSpuriousCall
  <2> SUFFICES ASSUME IInv PROVE NoSpuriousCall
    OBVIOUS
  <2>1. ASSUME at = "scan", scan \in Sig, Noted(scan) PROVE scan \in news
    BY <2>1 DEF IInv, Notes, Told
  <2>2. ASSUME call.op = "caught", at = "call", Noted(First) PROVE First \in news
    <3>1. First \in Sig
      BY <2>2, FirstInTodo DEF IInv
    <3>2. QED
      BY <2>2, <3>1 DEF IInv, Notes, Told
  <2>3. QED
    BY <2>1, <2>2 DEF NoSpuriousCall
<1>2. QED
  BY <1>1, Invariance, PTL
-----------------------------------------------------------------------------
(* Signals in ANSI C, for any number of signals: while a C handler runs,     *)
(* wherever the program is, the hook is set or about to be; the backend has  *)
(* not come to what is noted but not told.                                   *)

LEMMA AnsiCount == ASSUME NEW S PROVE N!Cardinality(S) = Cardinality(S) /\ (N!IsFiniteSet(S) <=> IsFiniteSet(S))
BY DEF Cardinality, N!Cardinality, IsFiniteSet, N!IsFiniteSet

LEMMA AnsiAssumed == /\ MAX_SIG \in Nat \ {0} /\ Unwilling \subseteq N!Sig /\ MaxRaised \in Nat /\ NoFunc \notin Func
                     /\ IsFiniteSet(Func) /\ Cardinality(Func) > MAX_SIG /\ N!Sig = 1 .. MAX_SIG
<1>1. N!SignalAnsiAssumption
  BY Assumptions, Zenon
<1> QED
  BY <1>1, AnsiCount DEF N!SignalAnsiAssumption, N!Sig

AnsiWays == {"default", "ignore", "handler"}
AnsiEntry == [fref : Func \cup {NoFunc}, triggered : BOOLEAN]
AnsiFrame == [sig : N!Sig, at : {"hook", "note", "again"}]
AnsiCatch == [op : {"catch"}, sig : N!Sig, fn : BOOLEAN, old : AnsiEntry]
AnsiGiveUp == [op : {"ignore", "default"}, sig : N!Sig, turns : {1, 2}]
AnsiCaught == [op : {"caught"}, todo : (SUBSET N!Sig) \ {{}}]

\* The kernel does what was asked for, unless it has forgotten a C handler that
\* is running; it never had one for a signal that signal() refuses.
AnsiKernel == /\ resets \in BOOLEAN
              /\ way \in [N!Sig -> AnsiWays] /\ asked \in [N!Sig -> AnsiWays]
              /\ killed \in N!Sig \cup {0}
              /\ \A s \in Unwilling : asked[s] = "default"
              /\ \A s \in N!Sig : \/ way[s] = asked[s]
                                  \/ way[s] = "default" /\ resets /\ s \in N!Handling
              /\ killed # 0 => asked[killed] = "default" \/ (resets /\ killed \in N!Handling)

AnsiFrames == /\ running \in Seq(AnsiFrame)
              /\ hooked \in BOOLEAN
              /\ \A k \in DOMAIN running : /\ asked[running[k].sig] = "handler"
                                           /\ running[k].at # "hook" => hooked

AnsiPlace == /\ stage \in {"lua", "while", "scan", "call", "installed", "clear"}
             /\ turn \in 0 .. MAX_SIG + 1
             /\ stage \in {"while", "scan"} => turn # 0
             /\ stage \in {"lua", "call", "installed", "clear"} => turn <= MAX_SIG
             /\ calling \in AnsiCatch \cup AnsiGiveUp \cup AnsiCaught \cup {N!NoCall}
             /\ stage = "installed" => calling.op = "catch"
             /\ stage = "clear" => calling.op \in {"ignore", "default", "caught"}

AnsiTable == /\ handlers \in [N!Sig -> AnsiEntry]
             /\ funcs \subseteq Func
             /\ N!FuncsOwned
             /\ \A s \in Unwilling : /\ ~ N!Noted(s)
                                     /\ N!HasHandler(s) => stage = "installed" /\ calling.sig = s
             /\ stage = "installed" =>
                  /\ calling.old.fref # NoFunc => \A s \in N!Sig : handlers[s].fref # calling.old.fref
                  /\ calling.sig \in Unwilling => calling.old.fref = NoFunc /\ ~ calling.old.triggered

AnsiAhead(s) == /\ turn # 0
                /\ \/ stage = "scan" /\ turn <= s
                   \/ stage \notin {"while", "scan"} /\ turn < s
AnsiTold(s) == stage = "clear" /\ calling.op = "caught" /\ s = N!First

\* As for POSIX.
AnsiNotes == /\ noted \in BOOLEAN /\ failed \in BOOLEAN /\ unheard \subseteq N!Sig
             /\ noted => hooked \/ stage = "while"
             /\ \A s \in N!Sig : N!Noted(s) /\ N!HasHandler(s) => noted \/ failed \/ AnsiAhead(s)
             /\ \A s \in N!Sig : N!Noted(s) => s \in unheard \/ AnsiTold(s)

AnsiIInv == AnsiKernel /\ AnsiFrames /\ AnsiPlace /\ AnsiTable /\ AnsiNotes
-----------------------------------------------------------------------------
LEMMA AnsiFirst == ASSUME AnsiPlace, calling.op = "caught"
                   PROVE  N!First \in N!Sig /\ N!First \in calling.todo /\ calling.todo \subseteq N!Sig
<1>1. calling \in AnsiCaught
  BY DEF AnsiPlace, AnsiCatch, AnsiGiveUp, AnsiCaught, N!NoCall
<1>2. calling.todo \subseteq N!Sig /\ calling.todo # {} /\ N!Sig \subseteq Nat
  BY <1>1, AnsiAssumed DEF AnsiCaught
<1>3. \E s \in calling.todo : \A t \in calling.todo : s <= t
  <2> DEFINE set == calling.todo
  <2>1. PICK s \in set : \A t \in set : <<t, s>> \notin OpToRel(<, Nat)
    BY <1>2, NatLessThanWellFounded, WFMin
  <2>2. ASSUME NEW t \in set PROVE s <= t
    <3>1. s \in Nat /\ t \in Nat
      BY <1>2
    <3>2. <<t, s>> \notin OpToRel(<, Nat)
      BY <2>1
    <3>3. ~ (t < s)
      BY <3>1, <3>2 DEF OpToRel
    <3> QED
      BY <3>1, <3>3
  <2> QED
    BY <2>2
<1> QED
  BY <1>2, <1>3 DEF N!First

LEMMA AnsiCalls == ASSUME AnsiPlace
                   PROVE  /\ calling.op = "catch" => calling \in AnsiCatch
                          /\ calling.op \in {"ignore", "default"} => calling \in AnsiGiveUp
                          /\ calling.op = "caught" => calling \in AnsiCaught
BY DEF AnsiPlace, AnsiCatch, AnsiGiveUp, AnsiCaught, N!NoCall
-----------------------------------------------------------------------------
(* The frames.                                                              *)

LEMMA AnsiTop == ASSUME AnsiFrames, running # << >>
                 PROVE  /\ Len(running) \in Nat \ {0} /\ Len(running) \in DOMAIN running
                        /\ N!top \in AnsiFrame /\ N!top.sig \in N!Sig /\ asked[N!top.sig] = "handler"
                        /\ N!top.at # "hook" => hooked
                        /\ N!top.sig \in N!Handling
<1>1. Len(running) \in Nat \ {0} /\ DOMAIN running = 1 .. Len(running)
  BY EmptySeq, LenProperties DEF AnsiFrames
<1>2. Len(running) \in DOMAIN running /\ N!top \in AnsiFrame
  BY <1>1, ElementOfSeq DEF AnsiFrames, N!top
<1> QED
  BY <1>1, <1>2 DEF AnsiFrames, N!top, AnsiFrame, N!Handling

LEMMA AnsiGoOn ==
  ASSUME AnsiFrames, running # << >>, NEW label \in {"note", "again"}, N!GoOn(label), hooked', UNCHANGED asked
  PROVE  AnsiFrames' /\ N!Handling' = N!Handling
<1> DEFINE n == Len(running)
           new == [N!top EXCEPT !.at = label]
<1>1. n \in DOMAIN running /\ N!top \in AnsiFrame /\ asked[N!top.sig] = "handler"
  BY AnsiTop
<1>2. new \in AnsiFrame /\ new.sig = N!top.sig
  BY <1>1 DEF AnsiFrame
<1>3. running' = [running EXCEPT ![n] = new]
  BY DEF N!GoOn, N!top
<1>4. DOMAIN running = 1 .. n /\ running \in Seq(AnsiFrame) /\ N!top = running[n]
  BY LenProperties DEF AnsiFrames, N!top
<1> HIDE DEF n, new
<1>5. running' \in Seq(AnsiFrame) /\ DOMAIN running' = DOMAIN running /\ Len(running') = Len(running)
  BY <1>1, <1>2, <1>3, <1>4, ExceptSeq DEF n
<1>6. \A k \in DOMAIN running' : running'[k].sig = running[k].sig
  BY <1>1, <1>2, <1>3, <1>4, <1>5
<1>7. N!Handling' = N!Handling
  BY <1>4, <1>5, <1>6 DEF N!Handling, n
<1> QED
  BY <1>5, <1>6, <1>7 DEF AnsiFrames

LEMMA AnsiReturn ==
  ASSUME AnsiFrames, running # << >>, running' = SubSeq(running, 1, Len(running) - 1), UNCHANGED <<hooked, asked>>
  PROVE  AnsiFrames' /\ N!Handling \subseteq N!Handling' \cup {N!top.sig}
<1> DEFINE n == Len(running)
<1>1. n \in Nat \ {0} /\ running \in Seq(AnsiFrame) /\ DOMAIN running = 1 .. n
  BY AnsiTop, LenProperties DEF AnsiFrames
<1>7. N!top = running[n]
  BY DEF N!top
<1>8. N!Handling = {running[k].sig : k \in 1 .. n}
  BY DEF N!Handling
<1> HIDE DEF n
<1>2. \A k \in 1 .. n - 1 : running[k] \in AnsiFrame
  BY <1>1, ElementOfSeq DEF n
<1>3. /\ running' \in Seq(AnsiFrame)
      /\ Len(running') = n - 1
      /\ \A k \in 1 .. n - 1 : running'[k] = running[k]
  <2>1. n - 1 \in Int /\ 1 \in Int /\ running' = SubSeq(running, 1, n - 1)
    BY <1>1 DEF n
  <2>2. /\ SubSeq(running, 1, n - 1) \in Seq(AnsiFrame)
        /\ Len(SubSeq(running, 1, n - 1)) = IF 1 <= n - 1 THEN n - 1 - 1 + 1 ELSE 0
        /\ \A k \in 1 .. n - 1 - 1 + 1 : SubSeq(running, 1, n - 1)[k] = running[1 + k - 1]
    BY <2>1, <1>2, SubSeqProperties
  <2> QED
    BY <2>1, <2>2, <1>1
<1>4. DOMAIN running' = 1 .. n - 1
  BY <1>3, LenProperties
<1>5. \A k \in DOMAIN running' : k \in DOMAIN running /\ running'[k] = running[k]
  BY <1>1, <1>3, <1>4
<1>6. N!Handling' = {running[k].sig : k \in 1 .. n - 1}
  BY <1>3 DEF N!Handling
<1>9. \A k \in 1 .. n : k \in 1 .. n - 1 \/ k = n
  BY <1>1
<1> QED
  BY <1>3, <1>5, <1>6, <1>7, <1>8, <1>9 DEF AnsiFrames

LEMMA AnsiPush ==
  ASSUME AnsiFrames, NEW f \in AnsiFrame, asked[f.sig] = "handler", f.at = "hook",
         running' = Append(running, f), UNCHANGED <<hooked, asked>>
  PROVE  AnsiFrames' /\ N!Handling' = N!Handling \cup {f.sig}
<1> DEFINE n == Len(running)
<1>1. n \in Nat /\ running \in Seq(AnsiFrame) /\ DOMAIN running = 1 .. n
  BY LenProperties DEF AnsiFrames
<1>2. /\ running' \in Seq(AnsiFrame)
      /\ Len(running') = n + 1
      /\ running'[n + 1] = f
      /\ \A k \in 1 .. n : running'[k] = running[k]
  BY <1>1
<1>3. DOMAIN running' = 1 .. n + 1
  BY <1>2, LenProperties
<1>5. N!Handling = {running[k].sig : k \in 1 .. n}
  BY DEF N!Handling
<1> HIDE DEF n
<1>4. ASSUME NEW k \in DOMAIN running'
      PROVE  asked'[running'[k].sig] = "handler" /\ (running'[k].at # "hook" => hooked)
  <2>1. CASE k = n + 1
    BY <2>1, <1>2
  <2>2. CASE k # n + 1
    BY <2>2, <1>1, <1>2, <1>3 DEF AnsiFrames
  <2> QED
    BY <2>1, <2>2
<1>6. N!Handling' = {running'[k].sig : k \in 1 .. n + 1}
  BY <1>2 DEF N!Handling
<1>7. \A k \in 1 .. n + 1 : k \in 1 .. n \/ k = n + 1
  BY <1>1
<1>8. \A k \in 1 .. n : k \in 1 .. n + 1
  BY <1>1
<1>9. n + 1 \in 1 .. n + 1
  BY <1>1
<1>10. N!Handling' = N!Handling \cup {f.sig}
  BY <1>2, <1>5, <1>6, <1>7, <1>8, <1>9
<1> QED
  BY <1>2, <1>4, <1>10 DEF AnsiFrames

LEMMA AnsiSameFrames ==
  ASSUME AnsiFrames, UNCHANGED running, hooked' \in BOOLEAN,
         (running = << >>) \/ (hooked' = hooked /\ UNCHANGED asked)
  PROVE  AnsiFrames' /\ N!Handling' = N!Handling
<1>1. N!Handling' = N!Handling
  BY DEF N!Handling
<1>2. CASE running = << >>
  <2>1. DOMAIN running = {}
    <3>1. Len(running) = 0 /\ DOMAIN running = 1 .. Len(running)
      BY <1>2, EmptySeq, LenProperties DEF AnsiFrames
    <3> QED
      BY <3>1
  <2> QED
    BY <1>1, <2>1 DEF AnsiFrames
<1>3. CASE hooked' = hooked /\ UNCHANGED asked
  BY <1>1, <1>3 DEF AnsiFrames
<1> QED
  BY <1>2, <1>3

\* Without C handlers the kernel does what was asked for.
LEMMA AnsiQuiet == ASSUME AnsiFrames, running = << >> PROVE N!Handling = {}
<1>1. Len(running) = 0
  BY EmptySeq
<1> QED
  BY <1>1 DEF N!Handling
-----------------------------------------------------------------------------
(* Parts that a step leaves alone.                                          *)

LEMMA AnsiSameTable == ASSUME AnsiTable, UNCHANGED <<handlers, funcs>>, stage # "installed", stage' # "installed"
                       PROVE  AnsiTable'
BY DEF AnsiTable, N!FuncsOwned, N!HasHandler, N!Noted

LEMMA AnsiSameTableHere == ASSUME AnsiTable, UNCHANGED <<handlers, funcs, stage, calling>> PROVE AnsiTable'
BY DEF AnsiTable, N!FuncsOwned, N!HasHandler, N!Noted

LEMMA AnsiSamePlace == ASSUME UNCHANGED N!placeVars
                       PROVE  /\ AnsiPlace => AnsiPlace'
                              /\ \A s \in N!Sig : (AnsiAhead(s) <=> AnsiAhead(s)') /\ (AnsiTold(s) <=> AnsiTold(s)')
BY DEF AnsiPlace, AnsiAhead, AnsiTold, N!First, N!placeVars

LEMMA AnsiSameNotesHere ==
  ASSUME AnsiNotes, UNCHANGED <<handlers, noted, hooked, unheard, failed, N!placeVars>>
  PROVE  AnsiNotes'
<1>1. \A s \in N!Sig : (AnsiAhead(s) <=> AnsiAhead(s)') /\ (AnsiTold(s) <=> AnsiTold(s)')
  BY AnsiSamePlace
<1> QED
  BY <1>1 DEF AnsiNotes, N!Noted, N!HasHandler, N!placeVars

LEMMA AnsiSameNotes ==
  ASSUME AnsiNotes, UNCHANGED <<handlers, noted, hooked, unheard, failed, turn>>,
         stage \notin {"while", "scan", "clear"}, stage' \notin {"while", "scan"}
  PROVE  AnsiNotes'
<1>1. \A s \in N!Sig : ~ AnsiTold(s) /\ (AnsiAhead(s) => AnsiAhead(s)')
  BY DEF AnsiTold, AnsiAhead
<1> QED
  BY <1>1 DEF AnsiNotes, N!Noted, N!HasHandler

LEMMA AnsiSameKernel == ASSUME AnsiKernel, UNCHANGED <<N!kernelVars, asked>>, N!Handling' = N!Handling
                        PROVE  AnsiKernel'
BY DEF AnsiKernel, N!kernelVars

\* What an entry that is noted, or no more, leaves of the table.
LEMMA AnsiTriggered ==
  ASSUME AnsiTable, NEW s \in N!Sig, s \notin Unwilling \/ ~ handlers'[s].triggered, NEW b \in BOOLEAN,
         handlers' = [handlers EXCEPT ![s].triggered = b], UNCHANGED funcs,
         UNCHANGED <<stage, calling>> \/ (stage # "installed" /\ stage' # "installed")
  PROVE  /\ AnsiTable'
         /\ \A t \in N!Sig : N!HasHandler(t)' <=> N!HasHandler(t)
         /\ \A t \in N!Sig : N!Noted(t)' <=> IF t = s THEN b ELSE N!Noted(t)
<1> DEFINE new == [handlers[s] EXCEPT !.triggered = b]
<1>1. handlers[s] \in AnsiEntry /\ handlers \in [N!Sig -> AnsiEntry]
  BY DEF AnsiTable
<1>2. new \in AnsiEntry /\ new.fref = handlers[s].fref /\ new.triggered = b
  BY <1>1 DEF AnsiEntry
<1>3. handlers' = [handlers EXCEPT ![s] = new]
  OBVIOUS
<1> HIDE DEF new
<1>4. /\ handlers' \in [N!Sig -> AnsiEntry]
      /\ \A t \in N!Sig : handlers'[t].fref = handlers[t].fref
      /\ handlers'[s].triggered = b
      /\ \A t \in N!Sig : t # s => handlers'[t] = handlers[t]
  BY <1>1, <1>2, <1>3
<1>5. {handlers'[t].fref : t \in N!Sig} = {handlers[t].fref : t \in N!Sig}
  BY <1>4
<1>6. N!FuncsOwned'
  BY <1>4, <1>5 DEF AnsiTable, N!FuncsOwned, N!HasHandler
<1>7. \A t \in N!Sig : (N!HasHandler(t)' <=> N!HasHandler(t)) /\ (N!Noted(t)' <=> IF t = s THEN b ELSE N!Noted(t))
  BY <1>4 DEF N!HasHandler, N!Noted
<1>8. \A t \in Unwilling : ~ N!Noted(t)' /\ (N!HasHandler(t)' => stage' = "installed" /\ calling'.sig = t)
  <2> TAKE t \in Unwilling
  <2>1. t \in N!Sig
    BY AnsiAssumed
  <2>2. ~ N!Noted(t) /\ (N!HasHandler(t) => stage = "installed" /\ calling.sig = t)
    BY DEF AnsiTable
  <2>3. ~ N!Noted(t)'
    BY <2>1, <2>2, <1>4, <1>7 DEF N!Noted
  <2> QED
    BY <2>1, <2>2, <2>3, <1>7
<1>9. stage' = "installed" =>
           /\ calling'.old.fref # NoFunc => \A t \in N!Sig : handlers'[t].fref # calling'.old.fref
           /\ calling'.sig \in Unwilling => calling'.old.fref = NoFunc /\ ~ calling'.old.triggered
  BY <1>4 DEF AnsiTable
<1>10. funcs' \subseteq Func
  BY DEF AnsiTable
<1> QED
  BY <1>4, <1>6, <1>7, <1>8, <1>9, <1>10 DEF AnsiTable

\* What a table with another entry owns.
LEMMA AnsiCleared ==
  ASSUME AnsiTable, NEW s \in N!Sig, NEW e \in AnsiEntry, e.fref = NoFunc, ~ e.triggered,
         handlers' = [handlers EXCEPT ![s] = e], funcs' = funcs \ {handlers[s].fref},
         stage # "installed" \/ (s \in Unwilling /\ s = calling.sig), stage' # "installed"
  PROVE  /\ AnsiTable'
         /\ \A t \in N!Sig : (N!HasHandler(t)' <=> N!HasHandler(t) /\ t # s) /\ (N!Noted(t)' <=> N!Noted(t) /\ t # s)
<1>1. /\ handlers' \in [N!Sig -> AnsiEntry] /\ handlers'[s] = e
      /\ \A t \in N!Sig : t # s => handlers'[t] = handlers[t]
  BY DEF AnsiTable
<1>2. \A t \in N!Sig : (N!HasHandler(t)' <=> N!HasHandler(t) /\ t # s) /\ (N!Noted(t)' <=> N!Noted(t) /\ t # s)
  BY <1>1 DEF N!HasHandler, N!Noted
<1>3. /\ funcs = {handlers[t].fref : t \in N!Sig} \ {NoFunc}
      /\ \A t, u \in N!Sig : N!HasHandler(t) /\ handlers[t].fref = handlers[u].fref => t = u
  BY DEF AnsiTable, N!FuncsOwned
<1>4. funcs' = {handlers'[t].fref : t \in N!Sig} \ {NoFunc}
  BY <1>1, <1>3 DEF N!HasHandler
<1>5. \A t, u \in N!Sig : N!HasHandler(t)' /\ handlers'[t].fref = handlers'[u].fref => t = u
  BY <1>1, <1>3 DEF N!HasHandler
<1>6. N!FuncsOwned'
  BY <1>4, <1>5 DEF N!FuncsOwned
<1>7. \A t \in Unwilling : ~ N!Noted(t)' /\ ~ N!HasHandler(t)'
  BY <1>2, AnsiAssumed DEF AnsiTable
<1>8. funcs' \subseteq Func
  BY DEF AnsiTable
<1> QED
  BY <1>1, <1>2, <1>6, <1>7, <1>8 DEF AnsiTable
-----------------------------------------------------------------------------
(* The kernel and signal_handler().                                         *)

LEMMA AnsiRaiseKeeps == ASSUME AnsiIInv, killed = 0, NEW s \in N!Sig, N!Raise(s) PROVE AnsiIInv'
<1>1. UNCHANGED <<resets, asked, noted, hooked, handlers, funcs, N!placeVars, stage, calling, unheard, failed>>
  BY DEF N!Raise, N!tableVars, N!placeVars
<1>2. AnsiPlace' /\ AnsiTable' /\ AnsiNotes'
  BY <1>1, AnsiSamePlace, AnsiSameTableHere, AnsiSameNotesHere DEF AnsiIInv
<1>3. way[s] \in {"default", "handler"} /\ way \in [N!Sig -> AnsiWays]
  BY DEF N!Raise, AnsiIInv, AnsiKernel, AnsiWays
<1>4. CASE way[s] = "default"
  <2>1. killed' = s /\ UNCHANGED <<way, running>>
    BY <1>4 DEF N!Raise
  <2>2. AnsiFrames' /\ N!Handling' = N!Handling
    BY <1>1, <2>1, AnsiSameFrames DEF AnsiIInv, AnsiFrames
  <2>3. AnsiKernel'
    BY <1>1, <1>4, <2>1, <2>2 DEF AnsiIInv, AnsiKernel
  <2> QED
    BY <1>2, <2>2, <2>3 DEF AnsiIInv
<1>5. CASE way[s] = "handler"
  <2> DEFINE f == [sig |-> s, at |-> "hook"]
  <2>1. /\ running' = Append(running, f) /\ UNCHANGED killed
        /\ way' = IF resets THEN [way EXCEPT ![s] = "default"] ELSE way
    BY <1>5 DEF N!Raise
  <2>2. f \in AnsiFrame /\ f.sig = s /\ f.at = "hook"
    BY DEF AnsiFrame
  <2>3. asked[s] = "handler"
    BY <1>5 DEF AnsiIInv, AnsiKernel
  <2> HIDE DEF f
  <2>4. AnsiFrames' /\ N!Handling' = N!Handling \cup {s}
    BY <1>1, <2>1, <2>2, <2>3, AnsiPush DEF AnsiIInv
  <2>5. AnsiKernel'
    <3>1. way' \in [N!Sig -> AnsiWays]
      BY <1>3, <2>1 DEF AnsiWays
    <3>2. \A t \in N!Sig : way'[t] = asked'[t] \/ (way'[t] = "default" /\ resets' /\ t \in N!Handling')
      BY <1>1, <1>3, <2>1, <2>4 DEF AnsiIInv, AnsiKernel
    <3> QED
      BY <1>1, <2>1, <2>4, <3>1, <3>2 DEF AnsiIInv, AnsiKernel
  <2> QED
    BY <1>2, <2>4, <2>5 DEF AnsiIInv
<1> QED
  BY <1>3, <1>4, <1>5

LEMMA AnsiHandlerKeeps == ASSUME AnsiIInv, killed = 0, N!HandlerStep PROVE AnsiIInv'
<1>1. /\ running # << >> /\ N!top \in AnsiFrame /\ N!top.sig \in N!Sig /\ asked[N!top.sig] = "handler"
      /\ N!top.at # "hook" => hooked
      /\ N!top.sig \notin Unwilling
  BY AnsiTop DEF N!HandlerStep, AnsiIInv, AnsiKernel
<1>2. UNCHANGED N!placeVars /\ UNCHANGED <<stage, turn, calling, asked>> /\ AnsiPlace'
  BY AnsiSamePlace DEF N!HandlerStep, N!SetHook, N!Note, N!Return, AnsiIInv, N!placeVars, N!tableVars
<1>3. CASE N!SetHook
  <2>1. AnsiFrames' /\ N!Handling' = N!Handling
    BY <1>1, <1>2, <1>3, AnsiGoOn DEF N!SetHook, AnsiIInv
  <2>2. AnsiKernel' /\ AnsiTable'
    BY <1>2, <1>3, <2>1, AnsiSameTableHere, AnsiSameKernel DEF N!SetHook, AnsiIInv, N!tableVars
  <2>3. AnsiNotes'
    <3>1. hooked' = TRUE /\ UNCHANGED <<handlers, noted, unheard, failed>>
      BY <1>3 DEF N!SetHook, N!tableVars
    <3>2. \A s \in N!Sig : (AnsiAhead(s) <=> AnsiAhead(s)') /\ (AnsiTold(s) <=> AnsiTold(s)')
      BY <1>2, AnsiSamePlace
    <3> QED
      BY <3>1, <3>2 DEF AnsiIInv, AnsiNotes, N!Noted, N!HasHandler
  <2> QED
    BY <1>2, <2>1, <2>2, <2>3 DEF AnsiIInv
<1>4. CASE N!Note
  <2>1. hooked /\ hooked' = hooked /\ UNCHANGED N!kernelVars
    BY <1>1, <1>4 DEF N!Note
  <2>2. AnsiFrames' /\ N!Handling' = N!Handling
    BY <1>1, <1>2, <1>4, <2>1, AnsiGoOn DEF N!Note, AnsiIInv
  <2>3. AnsiKernel'
    BY <1>2, <2>1, <2>2, AnsiSameKernel DEF AnsiIInv
  <2>4. /\ handlers' = [handlers EXCEPT ![N!top.sig].triggered = TRUE] /\ UNCHANGED funcs
        /\ noted' = TRUE /\ unheard' = unheard \cup {N!top.sig} /\ failed' = FALSE
    BY <1>4 DEF N!Note
  <2>5. /\ AnsiTable'
        /\ \A t \in N!Sig : N!Noted(t)' <=> IF t = N!top.sig THEN TRUE ELSE N!Noted(t)
    <3> DEFINE sig == N!top.sig
    <3>1. sig \in N!Sig /\ sig \notin Unwilling /\ handlers' = [handlers EXCEPT ![sig].triggered = TRUE]
      BY <1>1, <2>4
    <3> HIDE DEF sig
    <3>2. AnsiTable' /\ \A t \in N!Sig : N!Noted(t)' <=> IF t = sig THEN TRUE ELSE N!Noted(t)
      BY <1>2, <2>4, <3>1, AnsiTriggered DEF AnsiIInv
    <3> QED
      BY <3>2 DEF sig
  <2>6. AnsiNotes'
    <3>1. \A s \in N!Sig : (AnsiAhead(s) <=> AnsiAhead(s)') /\ (AnsiTold(s) <=> AnsiTold(s)')
      BY <1>2, AnsiSamePlace
    <3> QED
      BY <1>1, <2>1, <2>4, <2>5, <3>1 DEF AnsiIInv, AnsiNotes
  <2> QED
    BY <1>2, <2>2, <2>3, <2>5, <2>6 DEF AnsiIInv
<1>5. CASE N!Return
  <2>1. /\ running' = SubSeq(running, 1, Len(running) - 1) /\ way' = [way EXCEPT ![N!top.sig] = "handler"]
        /\ UNCHANGED <<resets, killed, noted, hooked, handlers, funcs, unheard, failed>>
    BY <1>5 DEF N!Return, N!Again, N!tableVars
  <2>2. AnsiFrames' /\ N!Handling \subseteq N!Handling' \cup {N!top.sig}
    BY <1>1, <1>2, <2>1, AnsiReturn DEF AnsiIInv
  <2>3. AnsiKernel'
    <3>1. way' \in [N!Sig -> AnsiWays] /\ way'[N!top.sig] = asked[N!top.sig]
          /\ \A s \in N!Sig : s # N!top.sig => way'[s] = way[s]
      BY <1>1, <2>1 DEF AnsiIInv, AnsiKernel, AnsiWays
    <3>2. \A s \in N!Sig : way'[s] = asked'[s] \/ (way'[s] = "default" /\ resets' /\ s \in N!Handling')
      BY <1>2, <2>1, <2>2, <3>1 DEF AnsiIInv, AnsiKernel
    <3> QED
      BY <1>2, <2>1, <3>1, <3>2 DEF AnsiIInv, AnsiKernel
  <2>4. AnsiTable' /\ AnsiNotes'
    BY <1>2, <2>1, AnsiSameTableHere, AnsiSameNotesHere DEF AnsiIInv
  <2> QED
    BY <1>2, <2>2, <2>3, <2>4 DEF AnsiIInv
<1> QED
  BY <1>3, <1>4, <1>5 DEF N!HandlerStep
-----------------------------------------------------------------------------
(* luasigbackend().                                                         *)

LEMMA AnsiBackendKeeps == ASSUME AnsiIInv, killed = 0, N!Backend PROVE AnsiIInv'
<1>1. /\ UNCHANGED <<N!kernelVars, asked, funcs, running, calling>> /\ running = << >>
      /\ stage \in {"lua", "while", "scan"} /\ stage' \in {"lua", "while", "scan"}
  BY DEF N!Backend, N!RunHook, N!While, N!CallHandler, N!SkipSignal, N!HandlerEnds, N!InProgram, N!Lua, N!Goto, N!tableVars
<1>2. hooked' \in BOOLEAN
  BY DEF N!Backend, N!RunHook, N!While, N!CallHandler, N!SkipSignal, N!HandlerEnds, AnsiIInv, AnsiFrames
<1>3. AnsiFrames' /\ AnsiKernel'
  BY <1>1, <1>2, AnsiSameFrames, AnsiSameKernel DEF AnsiIInv
<1>4. \A s \in N!Sig : ~ AnsiTold(s) /\ ~ AnsiTold(s)'
  BY <1>1 DEF AnsiTold
<1>5. CASE N!RunHook
  <2>1. /\ UNCHANGED <<handlers, noted, unheard, failed>> /\ turn = 0 /\ turn' = 1 /\ stage' = "while"
    BY <1>5 DEF N!RunHook, N!Goto, N!tableVars
  <2>2. AnsiPlace'
    BY <1>1, <2>1, AnsiAssumed DEF AnsiIInv, AnsiPlace
  <2>3. AnsiTable'
    BY <1>1, <2>1, AnsiSameTable DEF AnsiIInv
  <2>4. AnsiNotes'
    BY <1>4, <2>1 DEF AnsiIInv, AnsiNotes, AnsiAhead, N!Noted, N!HasHandler
  <2> QED
    BY <1>3, <2>2, <2>3, <2>4 DEF AnsiIInv
<1>6. CASE N!While
  <2>1. /\ UNCHANGED <<handlers, hooked, unheard, failed>> /\ stage = "while" /\ noted' = FALSE
        /\ IF noted THEN turn' = 1 /\ stage' = "scan" ELSE turn' = 0 /\ stage' = "lua"
    BY <1>6 DEF N!While, N!Goto, N!tableVars
  <2>2. AnsiPlace'
    BY <1>1, <2>1, AnsiAssumed DEF AnsiIInv, AnsiPlace
  <2>3. AnsiTable'
    BY <1>1, <2>1, AnsiSameTable DEF AnsiIInv
  <2>5. \A s \in N!Sig : ~ AnsiAhead(s)
    BY <2>1 DEF AnsiAhead
  <2>6. noted => \A s \in N!Sig : AnsiAhead(s)'
    BY <2>1, AnsiAssumed DEF AnsiAhead
  <2>4. AnsiNotes'
    BY <1>4, <2>1, <2>5, <2>6 DEF AnsiIInv, AnsiNotes, N!Noted, N!HasHandler
  <2> QED
    BY <1>3, <2>2, <2>3, <2>4 DEF AnsiIInv
<1>7. CASE N!CallHandler
  <2>1. /\ UNCHANGED <<hooked, noted, failed, turn>> /\ stage = "scan" /\ stage' = "lua" /\ turn \in N!Sig
        /\ handlers' = [handlers EXCEPT ![turn].triggered = FALSE] /\ unheard' = unheard \ {turn}
        /\ N!Noted(turn)
    BY <1>7 DEF N!CallHandler, N!Goto
  <2>2. AnsiPlace'
    BY <1>1, <2>1, AnsiAssumed DEF AnsiIInv, AnsiPlace
  <2>3. turn \notin Unwilling
    BY <2>1 DEF AnsiIInv, AnsiTable
  <2>4. /\ AnsiTable'
        /\ \A t \in N!Sig : (N!HasHandler(t)' <=> N!HasHandler(t)) /\ (N!Noted(t)' <=> IF t = turn THEN FALSE ELSE N!Noted(t))
    BY <1>1, <2>1, <2>3, AnsiTriggered DEF AnsiIInv
  <2>5. \A s \in N!Sig : AnsiAhead(s) /\ s # turn => AnsiAhead(s)'
    BY <2>1, AnsiAssumed DEF AnsiAhead
  <2>6. AnsiNotes'
    BY <1>4, <2>1, <2>4, <2>5 DEF AnsiIInv, AnsiNotes
  <2> QED
    BY <1>3, <2>2, <2>4, <2>6 DEF AnsiIInv
<1>8. CASE N!SkipSignal
  <2>1. UNCHANGED <<handlers, hooked, noted, unheard, failed>> /\ stage = "scan"
    BY <1>8 DEF N!SkipSignal, N!tableVars
  <2>2. AnsiPlace'
    BY <1>1, <1>8, <2>1, AnsiAssumed DEF N!SkipSignal, N!Goto, AnsiIInv, AnsiPlace
  <2>3. AnsiTable'
    BY <1>1, <2>1, AnsiSameTable DEF AnsiIInv
  <2>5. \A s \in N!Sig : AnsiAhead(s) /\ N!Noted(s) /\ N!HasHandler(s) => AnsiAhead(s)'
    BY <1>8, <2>1, AnsiAssumed DEF N!SkipSignal, N!Goto, AnsiAhead, AnsiIInv, AnsiPlace
  <2>4. AnsiNotes'
    BY <1>4, <2>1, <2>5 DEF AnsiIInv, AnsiNotes, N!Noted, N!HasHandler
  <2> QED
    BY <1>3, <2>2, <2>3, <2>4 DEF AnsiIInv
<1>9. CASE N!HandlerEnds
  <2>1. /\ UNCHANGED <<handlers, hooked, noted, unheard>> /\ stage = "lua" /\ turn # 0
        /\ \/ turn' = turn + 1 /\ stage' = "scan" /\ UNCHANGED failed
           \/ turn' = 0 /\ failed' = ~ noted /\ UNCHANGED stage
    BY <1>9 DEF N!HandlerEnds, N!Lua, N!Goto, N!tableVars
  <2>2. AnsiPlace'
    BY <1>1, <2>1, AnsiAssumed DEF AnsiIInv, AnsiPlace
  <2>3. AnsiTable'
    BY <1>1, <2>1, AnsiSameTable DEF AnsiIInv
  <2>4. CASE turn' = turn + 1 /\ stage' = "scan" /\ UNCHANGED failed
    <3>1. \A s \in N!Sig : AnsiAhead(s) => AnsiAhead(s)'
      BY <2>1, <2>4, AnsiAssumed DEF AnsiAhead, AnsiIInv, AnsiPlace
    <3>2. AnsiNotes'
      BY <1>4, <2>1, <2>4, <3>1 DEF AnsiIInv, AnsiNotes, N!Noted, N!HasHandler
    <3> QED
      BY <1>3, <2>2, <2>3, <3>2 DEF AnsiIInv
  <2>5. CASE turn' = 0 /\ failed' = ~ noted /\ UNCHANGED stage
    <3>1. AnsiNotes'
      BY <1>4, <2>1, <2>5 DEF AnsiIInv, AnsiNotes, N!Noted, N!HasHandler
    <3> QED
      BY <1>3, <2>2, <2>3, <3>1 DEF AnsiIInv
  <2> QED
    BY <2>1, <2>4, <2>5
<1> QED
  BY <1>5, <1>6, <1>7, <1>8, <1>9 DEF N!Backend
-----------------------------------------------------------------------------
(* The calls.                                                               *)

LEMMA AnsiUnused == N!Unused \in AnsiEntry /\ N!Unused.fref = NoFunc /\ ~ N!Unused.triggered
BY DEF N!Unused, AnsiEntry

LEMMA AnsiBeginKeeps == ASSUME AnsiIInv, killed = 0, N!BeginCall PROVE AnsiIInv'
<1>1. /\ UNCHANGED <<N!kernelVars, asked, noted, hooked, handlers, funcs, running, turn, unheard, failed>>
      /\ stage = "lua" /\ stage' = "call"
  BY DEF N!BeginCall, N!Lua, N!Goto, N!tableVars
<1>2. calling' \in AnsiCatch \cup AnsiGiveUp \cup AnsiCaught
  <2>1. CASE calling' \in [op : {"catch"}, sig : N!Sig, fn : BOOLEAN, old : {N!Unused}]
    BY <2>1, AnsiUnused DEF AnsiCatch
  <2>2. CASE calling' \in [op : {"ignore", "default"}, sig : N!Sig, turns : 1 .. 2]
    <3>1. 1 .. 2 = {1, 2}
      OBVIOUS
    <3> QED
      BY <2>2, <3>1 DEF AnsiGiveUp
  <2>3. CASE calling' \in [op : {"caught"}, todo : {N!Sig} \cup {{s} : s \in N!Sig}]
    <3>1. N!Sig # {}
      BY AnsiAssumed
    <3> QED
      BY <2>3, <3>1 DEF AnsiCaught
  <2> QED
    BY <2>1, <2>2, <2>3 DEF N!BeginCall
<1>3. AnsiFrames' /\ AnsiKernel' /\ AnsiTable' /\ AnsiNotes'
  BY <1>1, AnsiSameFrames, AnsiSameKernel, AnsiSameTable, AnsiSameNotes DEF AnsiIInv, AnsiFrames
<1>4. AnsiPlace'
  BY <1>1, <1>2 DEF AnsiIInv, AnsiPlace, AnsiCatch, AnsiGiveUp, AnsiCaught
<1> QED
  BY <1>3, <1>4 DEF AnsiIInv

\* There is a reference left for catch().
LEMMA AnsiFuncLeft == ASSUME AnsiTable, stage # "installed" PROVE \E r \in Func : r \notin funcs
<1> DEFINE S == {s \in N!Sig : N!HasHandler(s)}
           f == [s \in S |-> handlers[s].fref]
<1>1. IsFiniteSet(S) /\ Cardinality(S) <= MAX_SIG
  <2>1. IsFiniteSet(N!Sig) /\ Cardinality(N!Sig) = MAX_SIG
    BY FS_Interval, AnsiAssumed
  <2> QED
    BY <2>1, FS_Subset
<1>4. funcs = {handlers[s].fref : s \in S}
  BY DEF AnsiTable, N!FuncsOwned, N!HasHandler
<1>5. f \in Surjection(S, funcs)
  <2>1. f \in [S -> funcs]
    BY <1>4
  <2>2. \A r \in funcs : \E s \in S : f[s] = r
    BY <1>4
  <2> HIDE DEF f
  <2> QED
    BY <2>1, <2>2 DEF Surjection
<1> HIDE DEF f, S
<1>6. Cardinality(funcs) <= Cardinality(S)
  BY <1>1, <1>5, FS_Surjection
<1>7. /\ Cardinality(funcs) \in Nat /\ Cardinality(Func) \in Nat /\ Cardinality(S) \in Nat
      /\ funcs \subseteq Func
  <2>1. funcs \subseteq Func /\ IsFiniteSet(funcs)
    BY AnsiAssumed, FS_Subset DEF AnsiTable
  <2> QED
    BY <2>1, <1>1, AnsiAssumed, FS_CardinalityType
<1>8. funcs # Func
  BY <1>1, <1>6, <1>7, AnsiAssumed
<1> QED
  BY <1>7, <1>8

LEMMA AnsiInstallKeeps == ASSUME AnsiIInv, killed = 0, N!Install PROVE AnsiIInv'
<1> DEFINE sig == calling.sig
           old == handlers[sig]
<1>1. /\ stage = "call" /\ stage' = "installed" /\ calling \in AnsiCatch
      /\ UNCHANGED <<N!kernelVars, asked, noted, hooked, running, turn, failed>>
      /\ calling' = [calling EXCEPT !.old = old] /\ unheard' = unheard \ {sig}
  BY AnsiCalls DEF N!Install, N!Doing, N!Goto, AnsiIInv
<1>2. sig \in N!Sig /\ handlers \in [N!Sig -> AnsiEntry] /\ old \in AnsiEntry
  BY <1>1 DEF AnsiIInv, AnsiTable, AnsiCatch
<1>3. PICK r \in Func \cup {NoFunc} : /\ r \notin funcs
                                      /\ handlers' = [handlers EXCEPT ![sig] = [N!Unused EXCEPT !.fref = r]]
                                      /\ funcs' = funcs \cup ({r} \ {NoFunc})
  <2>1. \E r \in Func : r \notin funcs
    BY <1>1, AnsiFuncLeft DEF AnsiIInv
  <2>2. NoFunc \notin funcs
    BY AnsiAssumed DEF AnsiIInv, AnsiTable
  <2> QED
    BY <2>1, <2>2 DEF N!Install
<1> DEFINE new == [N!Unused EXCEPT !.fref = r]
<1>5. new \in AnsiEntry /\ new.fref = r /\ new.triggered = FALSE
  BY <1>3 DEF N!Unused, AnsiEntry
<1>6. calling' \in AnsiCatch /\ calling'.op = "catch" /\ calling'.sig = sig /\ calling'.old = old
  BY <1>1, <1>2 DEF AnsiCatch
<1> HIDE DEF old, new
<1>7. /\ handlers' \in [N!Sig -> AnsiEntry]
      /\ handlers'[sig].fref = r /\ ~ handlers'[sig].triggered
      /\ \A s \in N!Sig : s # sig => handlers'[s] = handlers[s]
  BY <1>2, <1>3, <1>5 DEF new
<1>8. \A s \in N!Sig : /\ handlers[s].fref # NoFunc => handlers[s].fref \in funcs
                       /\ handlers[s].fref = NoFunc \/ handlers[s].fref # r
  BY <1>3 DEF AnsiIInv, AnsiTable, N!FuncsOwned
<1>9. N!FuncsOwned'
  <2>1. funcs = {handlers[s].fref : s \in N!Sig} \ {NoFunc}
    BY <1>1 DEF AnsiIInv, AnsiTable, N!FuncsOwned
  <2>2. funcs' = ({handlers'[s].fref : s \in N!Sig} \cup {old.fref}) \ {NoFunc}
    <3>1. ASSUME NEW x \in funcs'
          PROVE  x \in ({handlers'[s].fref : s \in N!Sig} \cup {old.fref}) \ {NoFunc}
      BY <1>2, <1>3, <1>7, <2>1 DEF old
    <3>2. ASSUME NEW x \in ({handlers'[s].fref : s \in N!Sig} \cup {old.fref}) \ {NoFunc}
          PROVE  x \in funcs'
      BY <1>2, <1>3, <1>7, <1>8 DEF old
    <3> QED
      BY <3>1, <3>2
  <2>3. \A s, t \in N!Sig : N!HasHandler(s)' /\ handlers'[s].fref = handlers'[t].fref => s = t
    <3>1. \A s, t \in N!Sig : N!HasHandler(s) /\ handlers[s].fref = handlers[t].fref => s = t
      BY DEF AnsiIInv, AnsiTable, N!FuncsOwned
    <3> QED
      BY <1>7, <1>8, <3>1 DEF N!HasHandler
  <2> QED
    BY <1>1, <1>6, <2>2, <2>3 DEF N!FuncsOwned
<1>10. AnsiTable'
  <2>1. funcs' \subseteq Func
    BY <1>3 DEF AnsiIInv, AnsiTable
  <2>2. \A s \in Unwilling : ~ N!Noted(s)' /\ (N!HasHandler(s)' => s = sig)
    BY <1>1, <1>7, AnsiAssumed DEF AnsiIInv, AnsiTable, N!Noted, N!HasHandler
  <2>3. old.fref # NoFunc => \A s \in N!Sig : handlers'[s].fref # old.fref
    BY <1>2, <1>7, <1>8 DEF AnsiIInv, AnsiTable, N!FuncsOwned, N!HasHandler, old
  <2>4. sig \in Unwilling => old.fref = NoFunc /\ ~ old.triggered
    BY <1>1 DEF AnsiIInv, AnsiTable, N!Noted, N!HasHandler, old
  <2> QED
    BY <1>1, <1>6, <1>7, <1>9, <2>1, <2>2, <2>3, <2>4 DEF AnsiTable
<1>11. AnsiKernel' /\ AnsiFrames'
  BY <1>1, AnsiSameFrames, AnsiSameKernel DEF AnsiIInv, AnsiFrames
<1>12. AnsiPlace'
  BY <1>1, <1>6 DEF AnsiIInv, AnsiPlace
<1>13. AnsiNotes'
  <2>1. \A s \in N!Sig : N!Noted(s)' => N!Noted(s) /\ s # sig /\ (N!HasHandler(s)' => N!HasHandler(s))
    BY <1>7 DEF N!Noted, N!HasHandler
  <2>2. \A s \in N!Sig : ~ AnsiTold(s) /\ (AnsiAhead(s) => AnsiAhead(s)')
    BY <1>1 DEF AnsiTold, AnsiAhead
  <2> QED
    BY <1>1, <2>1, <2>2 DEF AnsiIInv, AnsiNotes
<1> QED
  BY <1>10, <1>11, <1>12, <1>13 DEF AnsiIInv

\* Without C handlers the kernel and what was asked for change together.
LEMMA AnsiAsks == ASSUME AnsiIInv, killed = 0, running = << >>, NEW s \in N!Sig, NEW to \in AnsiWays,
                         s \in Unwilling => to = "default",
                         way' = [way EXCEPT ![s] = to], asked' = [asked EXCEPT ![s] = to],
                         UNCHANGED <<resets, killed, running, hooked>>
                  PROVE  AnsiKernel' /\ AnsiFrames'
<1>1. AnsiFrames' /\ N!Handling' = N!Handling
  BY AnsiSameFrames DEF AnsiIInv, AnsiFrames
<1>2. N!Handling = {}
  BY AnsiQuiet DEF AnsiIInv
<1>3. \A t \in N!Sig : way'[t] = asked'[t]
  BY <1>2 DEF AnsiIInv, AnsiKernel
<1>4. \A t \in Unwilling : t \in N!Sig /\ asked'[t] = "default"
  BY AnsiAssumed DEF AnsiIInv, AnsiKernel
<1> QED
  BY <1>1, <1>3, <1>4 DEF AnsiIInv, AnsiKernel

LEMMA AnsiDoneKeeps == ASSUME AnsiIInv, killed = 0, N!CatchDone PROVE AnsiIInv'
<1>1. /\ stage = "installed" /\ stage' = "lua" /\ calling' = N!NoCall /\ calling.sig \notin Unwilling /\ running = << >>
      /\ UNCHANGED <<resets, killed, noted, hooked, handlers, running, turn, unheard, failed>>
      /\ way' = [way EXCEPT ![calling.sig] = "handler"] /\ asked' = [asked EXCEPT ![calling.sig] = "handler"]
      /\ funcs' = funcs \ {calling.old.fref}
      /\ calling \in AnsiCatch
  BY AnsiCalls DEF N!CatchDone, N!Doing, N!InProgram, N!Finish, AnsiIInv
<1>2. calling.sig \in N!Sig
  BY <1>1 DEF AnsiCatch
<1>3. AnsiKernel' /\ AnsiFrames'
  BY <1>1, <1>2, AnsiAsks DEF AnsiWays
<1>4. AnsiPlace'
  BY <1>1 DEF AnsiIInv, AnsiPlace, N!NoCall
<1>5. AnsiNotes'
  BY <1>1, AnsiSameNotes DEF AnsiIInv
<1>6. AnsiTable'
  <2>1. N!FuncsOwned'
    BY <1>1 DEF AnsiIInv, AnsiTable, N!FuncsOwned, N!HasHandler
  <2> QED
    BY <1>1, <2>1 DEF AnsiIInv, AnsiTable, N!Noted, N!HasHandler
<1> QED
  BY <1>3, <1>4, <1>5, <1>6 DEF AnsiIInv

LEMMA AnsiFailsKeeps == ASSUME AnsiIInv, killed = 0, N!CatchFails PROVE AnsiIInv'
<1>1. /\ stage = "installed" /\ stage' = "lua" /\ calling' = N!NoCall /\ calling.sig \in Unwilling
      /\ UNCHANGED <<N!kernelVars, asked, noted, hooked, running, turn, unheard, failed>>
      /\ handlers' = [handlers EXCEPT ![calling.sig] = calling.old]
      /\ funcs' = funcs \ {handlers[calling.sig].fref}
      /\ calling \in AnsiCatch
      /\ calling.old.fref = NoFunc /\ ~ calling.old.triggered
  BY AnsiCalls DEF N!CatchFails, N!Doing, N!Finish, AnsiIInv, AnsiTable
<1>2. calling.sig \in N!Sig /\ calling.old \in AnsiEntry
  BY <1>1 DEF AnsiCatch
<1>3. /\ AnsiTable'
      /\ \A t \in N!Sig : /\ N!HasHandler(t)' <=> N!HasHandler(t) /\ t # calling.sig
                          /\ N!Noted(t)' <=> N!Noted(t) /\ t # calling.sig
  <2> DEFINE sig == calling.sig
             e == calling.old
  <2>1. sig \in N!Sig /\ e \in AnsiEntry /\ sig \in Unwilling /\ sig = calling.sig /\ e.fref = NoFunc /\ ~ e.triggered
        /\ handlers' = [handlers EXCEPT ![sig] = e] /\ funcs' = funcs \ {handlers[sig].fref}
    BY <1>1, <1>2
  <2> HIDE DEF sig, e
  <2>2. /\ AnsiTable'
        /\ \A t \in N!Sig : (N!HasHandler(t)' <=> N!HasHandler(t) /\ t # sig) /\ (N!Noted(t)' <=> N!Noted(t) /\ t # sig)
    BY <1>1, <2>1, AnsiCleared DEF AnsiIInv
  <2> QED
    BY <2>2 DEF sig
<1>4. AnsiKernel' /\ AnsiFrames'
  BY <1>1, AnsiSameFrames, AnsiSameKernel DEF AnsiIInv, AnsiFrames
<1>5. AnsiPlace'
  BY <1>1 DEF AnsiIInv, AnsiPlace, N!NoCall
<1>6. AnsiNotes'
  <2>1. \A s \in N!Sig : ~ AnsiTold(s) /\ (AnsiAhead(s) => AnsiAhead(s)')
    BY <1>1 DEF AnsiTold, AnsiAhead
  <2> QED
    BY <1>1, <1>3, <2>1 DEF AnsiIInv, AnsiNotes
<1> QED
  BY <1>3, <1>4, <1>5, <1>6 DEF AnsiIInv

LEMMA AnsiGiveUpKeeps == ASSUME AnsiIInv, killed = 0, N!GiveUp PROVE AnsiIInv'
<1>1. /\ stage = "call" /\ stage' = "clear" /\ calling.op \in {"ignore", "default"} /\ running = << >>
      /\ UNCHANGED <<resets, killed, noted, hooked, handlers, funcs, running, turn, calling, unheard, failed>>
      /\ way' = (IF calling.sig \in Unwilling THEN way ELSE [way EXCEPT ![calling.sig] = calling.op])
      /\ asked' = [asked EXCEPT ![calling.sig] = way'[calling.sig]]
  BY DEF N!GiveUp, N!Doing, N!InProgram, N!Goto
<1>2. calling.sig \in N!Sig /\ calling.op \in AnsiWays
  BY <1>1, AnsiCalls DEF AnsiIInv, AnsiGiveUp, AnsiWays
<1>3. N!Handling = {}
  BY <1>1, AnsiQuiet DEF AnsiIInv
<1>4. PICK to \in AnsiWays : /\ calling.sig \in Unwilling => to = "default"
                             /\ way' = [way EXCEPT ![calling.sig] = to]
                             /\ asked' = [asked EXCEPT ![calling.sig] = to]
  <2>1. CASE calling.sig \in Unwilling
    <3>1. way[calling.sig] = "default" /\ way' = way /\ way = [way EXCEPT ![calling.sig] = "default"]
      BY <1>1, <1>2, <1>3, <2>1 DEF AnsiIInv, AnsiKernel
    <3>2. "default" \in AnsiWays
      BY DEF AnsiWays
    <3> QED
      BY <1>1, <3>1, <3>2
  <2>2. CASE calling.sig \notin Unwilling
    <3>1. way' = [way EXCEPT ![calling.sig] = calling.op] /\ way'[calling.sig] = calling.op
      BY <1>1, <1>2, <2>2 DEF AnsiIInv, AnsiKernel
    <3> QED
      BY <1>1, <1>2, <2>2, <3>1
  <2> QED
    BY <2>1, <2>2
<1>5. AnsiKernel' /\ AnsiFrames'
  BY <1>1, <1>2, <1>4, AnsiAsks
<1>6. AnsiPlace'
  BY <1>1 DEF AnsiIInv, AnsiPlace
<1>7. AnsiTable' /\ AnsiNotes'
  BY <1>1, AnsiSameTable, AnsiSameNotes DEF AnsiIInv
<1> QED
  BY <1>5, <1>6, <1>7 DEF AnsiIInv

LEMMA AnsiClearKeeps == ASSUME AnsiIInv, killed = 0, N!ClearEntry PROVE AnsiIInv'
<1>1. /\ stage = "clear" /\ calling.op \in {"ignore", "default"} /\ calling \in AnsiGiveUp
      /\ UNCHANGED <<N!kernelVars, asked, noted, hooked, running, turn, failed>>
      /\ handlers' = [handlers EXCEPT ![calling.sig] = N!Unused]
      /\ funcs' = funcs \ {handlers[calling.sig].fref}
      /\ unheard' = unheard \ {calling.sig}
  BY AnsiCalls DEF N!ClearEntry, N!Doing, AnsiIInv
<1>2. calling.sig \in N!Sig
  BY <1>1 DEF AnsiGiveUp
<1>3. AnsiPlace' /\ stage' \in {"lua", "call"}
  <2>1. CASE calling.turns = 1
    BY <1>1, <2>1 DEF N!ClearEntry, N!Finish, AnsiIInv, AnsiPlace, N!NoCall
  <2>2. CASE calling.turns # 1
    <3>1. calling.turns = 2 /\ stage' = "call" /\ calling' = [calling EXCEPT !.turns = @ - 1]
      BY <1>1, <2>2 DEF N!ClearEntry, N!Goto, AnsiGiveUp
    <3>2. calling' \in AnsiGiveUp
      BY <1>1, <3>1 DEF AnsiGiveUp
    <3> QED
      BY <1>1, <3>1, <3>2 DEF AnsiIInv, AnsiPlace
  <2> QED
    BY <2>1, <2>2
<1>4. /\ AnsiTable'
      /\ \A t \in N!Sig : /\ N!HasHandler(t)' <=> N!HasHandler(t) /\ t # calling.sig
                          /\ N!Noted(t)' <=> N!Noted(t) /\ t # calling.sig
  <2> DEFINE sig == calling.sig
  <2>1. sig \in N!Sig /\ handlers' = [handlers EXCEPT ![sig] = N!Unused] /\ funcs' = funcs \ {handlers[sig].fref}
    BY <1>1, <1>2
  <2> HIDE DEF sig
  <2>2. /\ AnsiTable'
        /\ \A t \in N!Sig : (N!HasHandler(t)' <=> N!HasHandler(t) /\ t # sig) /\ (N!Noted(t)' <=> N!Noted(t) /\ t # sig)
    BY <1>1, <1>3, <2>1, AnsiUnused, AnsiCleared DEF AnsiIInv
  <2> QED
    BY <2>2 DEF sig
<1>5. AnsiKernel' /\ AnsiFrames'
  BY <1>1, AnsiSameFrames, AnsiSameKernel DEF AnsiIInv, AnsiFrames
<1>6. AnsiNotes'
  <2>1. \A s \in N!Sig : ~ AnsiTold(s) /\ (AnsiAhead(s) => AnsiAhead(s)')
    BY <1>1, <1>3 DEF AnsiTold, AnsiAhead
  <2> QED
    BY <1>1, <1>4, <2>1 DEF AnsiIInv, AnsiNotes
<1> QED
  BY <1>3, <1>4, <1>5, <1>6 DEF AnsiIInv

LEMMA AnsiReadKeeps == ASSUME AnsiIInv, killed = 0, N!ReadCaught PROVE AnsiIInv'
<1>1. /\ stage = "call" /\ stage' = "clear" /\ calling.op = "caught"
      /\ UNCHANGED <<N!kernelVars, asked, noted, hooked, handlers, funcs, running, turn, calling, failed>>
      /\ unheard' = (IF N!Noted(N!First) THEN unheard \ {N!First} ELSE unheard)
  BY DEF N!ReadCaught, N!Doing, N!Goto, N!tableVars
<1>2. AnsiKernel' /\ AnsiFrames' /\ AnsiTable'
  BY <1>1, AnsiSameFrames, AnsiSameKernel, AnsiSameTable DEF AnsiIInv, AnsiFrames
<1>3. AnsiPlace'
  BY <1>1 DEF AnsiIInv, AnsiPlace
<1>4. N!First' = N!First
  BY <1>1 DEF N!First
<1>5. \A s \in N!Sig : (N!Noted(s) => s \in unheard' \/ AnsiTold(s)') /\ (AnsiAhead(s) => AnsiAhead(s)')
  BY <1>1, <1>4 DEF AnsiIInv, AnsiNotes, AnsiTold, AnsiAhead
<1>6. AnsiNotes'
  BY <1>1, <1>5 DEF AnsiIInv, AnsiNotes, N!Noted, N!HasHandler
<1> QED
  BY <1>2, <1>3, <1>6 DEF AnsiIInv

LEMMA AnsiCaughtKeeps == ASSUME AnsiIInv, killed = 0, N!ClearCaught PROVE AnsiIInv'
<1>1. PICK sig \in N!Sig : sig = N!First /\ sig \in calling.todo
  BY AnsiFirst DEF N!ClearCaught, N!Doing, AnsiIInv
<1>2. /\ stage = "clear" /\ calling.op = "caught" /\ calling \in AnsiCaught
      /\ UNCHANGED <<N!kernelVars, asked, noted, hooked, funcs, running, turn, unheard, failed>>
      /\ handlers' = [handlers EXCEPT ![sig].triggered = FALSE]
  BY <1>1, AnsiCalls DEF N!ClearCaught, N!Doing, AnsiIInv
<1>3. AnsiPlace' /\ stage' \in {"lua", "call"}
  <2>1. CASE calling.todo = {N!First}
    BY <1>2, <2>1 DEF N!ClearCaught, N!Finish, AnsiIInv, AnsiPlace, N!NoCall
  <2>2. CASE calling.todo # {N!First}
    <3> DEFINE rest == calling.todo \ {sig}
    <3>1. stage' = "call" /\ calling' = [calling EXCEPT !.todo = rest]
      BY <1>1, <1>2, <2>2 DEF N!ClearCaught, N!Goto
    <3>2. rest \in (SUBSET N!Sig) \ {{}}
      BY <1>1, <1>2, <2>2 DEF AnsiCaught
    <3> HIDE DEF rest
    <3>3. calling' \in AnsiCaught
      BY <1>2, <3>1, <3>2 DEF AnsiCaught
    <3> QED
      BY <1>2, <3>1, <3>3 DEF AnsiIInv, AnsiPlace
  <2> QED
    BY <2>1, <2>2
<1>4. handlers \in [N!Sig -> AnsiEntry]
  BY DEF AnsiIInv, AnsiTable
<1>5. ~ handlers'[sig].triggered
  BY <1>2, <1>4 DEF AnsiEntry
<1>6. /\ AnsiTable'
      /\ \A t \in N!Sig : (N!HasHandler(t)' <=> N!HasHandler(t)) /\ (N!Noted(t)' <=> IF t = sig THEN FALSE ELSE N!Noted(t))
  BY <1>2, <1>3, <1>5, AnsiTriggered DEF AnsiIInv
<1>7. AnsiKernel' /\ AnsiFrames'
  BY <1>2, AnsiSameFrames, AnsiSameKernel DEF AnsiIInv, AnsiFrames
<1>8. AnsiNotes'
  <2>1. \A s \in N!Sig : (AnsiTold(s) => s = sig) /\ (AnsiAhead(s) => AnsiAhead(s)')
    BY <1>1, <1>2, <1>3 DEF AnsiTold, AnsiAhead
  <2> QED
    BY <1>2, <1>6, <2>1 DEF AnsiIInv, AnsiNotes
<1> QED
  BY <1>3, <1>6, <1>7, <1>8 DEF AnsiIInv
-----------------------------------------------------------------------------
LEMMA AnsiInitHolds == N!Init => AnsiIInv
<1> SUFFICES ASSUME N!Init PROVE AnsiIInv
  OBVIOUS
<1>1. AnsiKernel
  BY AnsiAssumed DEF N!Init, AnsiKernel, AnsiWays
<1>2. AnsiFrames
  <2>1. running \in Seq(AnsiFrame) /\ Len(running) = 0 /\ hooked = FALSE
    BY EmptySeq DEF N!Init
  <2>2. DOMAIN running = 1 .. 0
    BY <2>1, LenProperties
  <2>3. \A k \in DOMAIN running : FALSE
    BY <2>2
  <2> QED
    BY <2>1, <2>3 DEF AnsiFrames
<1>3. AnsiPlace
  BY AnsiAssumed DEF N!Init, AnsiPlace, N!NoCall
<1>4. \A s \in N!Sig : ~ N!Noted(s) /\ ~ N!HasHandler(s) /\ handlers[s] = N!Unused
  BY AnsiUnused DEF N!Init, N!Noted, N!HasHandler
<1>5. AnsiTable
  <2>1. N!FuncsOwned
    BY <1>4, AnsiUnused DEF N!Init, N!FuncsOwned
  <2> QED
    BY <1>4, <2>1, AnsiUnused, AnsiAssumed DEF N!Init, AnsiTable
<1>6. AnsiNotes
  BY <1>4 DEF N!Init, AnsiNotes
<1> QED
  BY <1>1, <1>2, <1>3, <1>5, <1>6 DEF AnsiIInv

LEMMA AnsiNextKeeps == ASSUME AnsiIInv, [N!Next]_(N!vars) PROVE AnsiIInv'
<1>1. CASE N!Next
  BY <1>1, AnsiRaiseKeeps, AnsiHandlerKeeps, AnsiBackendKeeps, AnsiBeginKeeps, AnsiInstallKeeps, AnsiDoneKeeps,
     AnsiFailsKeeps, AnsiGiveUpKeeps, AnsiClearKeeps, AnsiReadKeeps, AnsiCaughtKeeps DEF N!Next, N!Call
<1>2. CASE UNCHANGED N!vars
  <2>1. UNCHANGED <<N!kernelVars, asked, noted, hooked, handlers, funcs, running, N!placeVars, stage, calling, unheard, failed>>
    BY <1>2 DEF N!vars, N!tableVars, N!placeVars
  <2>2. AnsiFrames' /\ AnsiKernel'
    BY <2>1, AnsiSameFrames, AnsiSameKernel DEF AnsiIInv, AnsiFrames
  <2> QED
    BY <2>1, <2>2, AnsiSamePlace, AnsiSameTableHere, AnsiSameNotesHere DEF AnsiIInv
<1> QED
  BY <1>1, <1>2

LEMMA AnsiTypes == AnsiIInv => N!TypeOK
<1> SUFFICES ASSUME AnsiIInv PROVE N!TypeOK
  OBVIOUS
<1>1. /\ way \in [N!Sig -> AnsiWays] /\ \A s \in N!Sig : handlers[s].fref \in Func \cup {NoFunc}
  BY DEF AnsiIInv, AnsiKernel, AnsiTable, AnsiEntry
<1>2. turn \in 0 .. MAX_SIG + 1
  BY DEF AnsiIInv, AnsiPlace
<1>3. Cardinality(funcs) <= MAX_SIG + 1
  <2> DEFINE of == [s \in 1 .. MAX_SIG + 1 |-> IF s \in N!Sig THEN handlers[s].fref ELSE calling.old.fref]
             S == {s \in 1 .. MAX_SIG + 1 : of[s] \in funcs}
             f == [s \in S |-> of[s]]
  <2>1. IsFiniteSet(1 .. MAX_SIG + 1) /\ Cardinality(1 .. MAX_SIG + 1) = MAX_SIG + 1
    BY FS_Interval, AnsiAssumed
  <2>2. IsFiniteSet(S) /\ Cardinality(S) <= MAX_SIG + 1
    BY <2>1, FS_Subset
  <2>3. \A r \in funcs : \E s \in 1 .. MAX_SIG + 1 : of[s] = r
    <3> SUFFICES ASSUME NEW r \in funcs PROVE \E s \in 1 .. MAX_SIG + 1 : of[s] = r
      OBVIOUS
    <3>1. (\E s \in N!Sig : r = handlers[s].fref) \/ r = calling.old.fref
      BY DEF AnsiIInv, AnsiTable, N!FuncsOwned
    <3>2. ASSUME NEW s \in N!Sig, r = handlers[s].fref PROVE \E t \in 1 .. MAX_SIG + 1 : of[t] = r
      <4>1. s \in 1 .. MAX_SIG + 1 /\ of[s] = r
        BY <3>2, AnsiAssumed
      <4> QED
        BY <4>1
    <3>3. ASSUME r = calling.old.fref PROVE \E t \in 1 .. MAX_SIG + 1 : of[t] = r
      <4>1. MAX_SIG + 1 \in 1 .. MAX_SIG + 1 /\ MAX_SIG + 1 \notin N!Sig
        BY AnsiAssumed
      <4>2. of[MAX_SIG + 1] = r
        BY <3>3, <4>1
      <4> QED
        BY <4>1, <4>2
    <3> QED
      BY <3>1, <3>2, <3>3
  <2> HIDE DEF of
  <2>4. f \in Surjection(S, funcs)
    <3>1. f \in [S -> funcs]
      OBVIOUS
    <3>2. \A r \in funcs : \E s \in S : f[s] = r
      BY <2>3
    <3> HIDE DEF f
    <3> QED
      BY <3>1, <3>2 DEF Surjection
  <2> HIDE DEF f, S
  <2>5. Cardinality(funcs) <= Cardinality(S) /\ IsFiniteSet(funcs)
    BY <2>2, <2>4, FS_Surjection
  <2>6. Cardinality(funcs) \in Nat /\ Cardinality(S) \in Nat
    BY <2>2, <2>5, FS_CardinalityType
  <2> QED
    BY <2>2, <2>5, <2>6, AnsiAssumed
<1> QED
  BY <1>1, <1>2, <1>3, AnsiCount DEF N!TypeOK, AnsiWays

LEMMA AnsiAnswers == AnsiIInv => N!NotForgotten /\ N!NotInvented /\ N!StaysCaught
<1> SUFFICES ASSUME AnsiIInv PROVE N!NotForgotten /\ N!NotInvented /\ N!StaysCaught
  OBVIOUS
<1>1. N!NotForgotten
  <2> SUFFICES ASSUME N!InProgram, NEW s \in N!Sig, N!Noted(s), N!HasHandler(s)
               PROVE  hooked \/ failed \/ (turn # 0 /\ (stage = "while" \/ noted \/ turn <= s))
    BY DEF N!NotForgotten
  <2>1. noted \/ failed \/ AnsiAhead(s)
    BY DEF AnsiIInv, AnsiNotes
  <2>2. noted => hooked \/ (stage = "while" /\ turn # 0)
    BY DEF AnsiIInv, AnsiNotes, AnsiPlace
  <2>3. AnsiAhead(s) => turn # 0 /\ turn <= s
    BY AnsiAssumed DEF AnsiAhead, AnsiIInv, AnsiPlace
  <2> QED
    BY <2>1, <2>2, <2>3
<1>2. N!NotInvented
  BY DEF N!NotInvented, AnsiIInv, AnsiNotes, AnsiTold
<1>3. N!StaysCaught
  <2>1. N!InProgram => \A s \in N!Sig : way[s] = asked[s]
    BY AnsiQuiet DEF AnsiIInv, AnsiKernel, N!InProgram
  <2>2. way \in [N!Sig -> AnsiWays] /\ asked \in [N!Sig -> AnsiWays]
    BY DEF AnsiIInv, AnsiKernel
  <2>3. (\A s \in N!Sig : way[s] = asked[s]) => way = asked
    BY <2>2
  <2> QED
    BY <2>1, <2>3 DEF N!StaysCaught, AnsiIInv, AnsiKernel
<1> QED
  BY <1>1, <1>2, <1>3

-----------------------------------------------------------------------------
(* Descriptors have one owner each and none is lost, for any number of     *)
(* descriptors, sockets, files and directories.                            *)

\* Sets are counted there as they are here.
LEMMA FdCount == ASSUME NEW S PROVE D!Cardinality(S) = Cardinality(S) /\ (D!IsFiniteSet(S) <=> IsFiniteSet(S))
BY DEF Cardinality, D!Cardinality, IsFiniteSet, D!IsFiniteSet

\* The descriptor that the kernel gives out is one that nobody has.
LEMMA LowestIn == ASSUME NEW S \in SUBSET Nat, S # {}
                  PROVE  D!Lowest(S) \in S
BY LowestOf DEF D!Lowest
-----------------------------------------------------------------------------
FdNumber == Fd \cup {D!Closed, D!Absent}

FdTypes == /\ open \subseteq Fd /\ shared \subseteq Fd /\ lost \subseteq Fd
           /\ sock \in [Sock -> FdNumber] /\ stream \in [Stream -> FdNumber] /\ dir \in [Dir -> FdNumber]

\* What the calls rely on and leave: every number that is open has an object,
\* or was lost by a _dup(), and every number that went through none of the calls
\* that share it has at most one object, which has it open.
FdIInv == FdTypes /\ D!NoLeak /\ D!OneOwner

LEMMA FdNoNumber == ASSUME D!KernelAssumption PROVE D!Closed \notin Fd /\ D!Absent \notin Fd
BY DEF D!KernelAssumption, D!Closed, D!Absent

LEMMA FirstUnused == ASSUME D!KernelAssumption, D!Unused # {}
                     PROVE  D!First \in Fd /\ D!First \notin open
<1>1. D!Unused \in SUBSET Nat
  BY DEF D!Unused, D!KernelAssumption
<1>2. D!First \in D!Unused
  BY <1>1, LowestIn DEF D!First
<1> QED
  BY <1>2 DEF D!Unused

LEMMA SecondUnused == ASSUME D!KernelAssumption, D!Cardinality(D!Unused) >= 2
                      PROVE  /\ D!First \in Fd /\ D!First \notin open
                             /\ D!Second \in Fd /\ D!Second \notin open /\ D!Second # D!First
<1>1. D!Unused \in SUBSET Nat /\ IsFiniteSet(D!Unused)
  BY FS_Subset, FdCount DEF D!Unused, D!KernelAssumption
<1>2. D!Unused # {}
  BY FS_EmptySet, FdCount
<1>3. D!Unused # {D!First}
  <2>1. D!Cardinality({D!First}) = 1
    BY FS_Singleton, FdCount
  <2> QED
    BY <2>1
<1>4. D!Unused \ {D!First} # {}
  BY <1>2, <1>3
<1>5. D!Second \in D!Unused \ {D!First}
  BY <1>1, <1>4, LowestIn DEF D!Second
<1> QED
  BY <1>2, <1>5, FirstUnused DEF D!Unused
-----------------------------------------------------------------------------
(* What becomes of the holders when one object or two change.              *)

LEMMA FdNumbers == /\ \A s \in Sock   : <<"socket", s>> \in D!Object /\ D!held[<<"socket", s>>] = sock[s]
                   /\ \A f \in Stream : <<"stream", f>> \in D!Object /\ D!held[<<"stream", f>>] = stream[f]
                   /\ \A d \in Dir    : <<"directory", d>> \in D!Object /\ D!held[<<"directory", d>>] = dir[d]
<1>1. /\ \A s \in Sock : <<"socket", s>> \in D!Object
      /\ \A f \in Stream : <<"stream", f>> \in D!Object
      /\ \A d \in Dir : <<"directory", d>> \in D!Object
  BY DEF D!Object
<1>2. \A s \in Sock : D!held[<<"socket", s>>] = sock[s]
  BY <1>1 DEF D!held
<1>3. \A f \in Stream : D!held[<<"stream", f>>] = stream[f]
  BY <1>1 DEF D!held
<1>4. \A d \in Dir : D!held[<<"directory", d>>] = dir[d]
  BY <1>1 DEF D!held
<1> QED
  BY <1>1, <1>2, <1>3, <1>4

LEMMA FdNumbersAfter == /\ \A s \in Sock   : D!held'[<<"socket", s>>] = sock'[s]
                        /\ \A f \in Stream : D!held'[<<"stream", f>>] = stream'[f]
                        /\ \A d \in Dir    : D!held'[<<"directory", d>>] = dir'[d]
<1>1. /\ \A s \in Sock : <<"socket", s>> \in D!Object
      /\ \A f \in Stream : <<"stream", f>> \in D!Object
      /\ \A d \in Dir : <<"directory", d>> \in D!Object
  BY DEF D!Object
<1>2. \A s \in Sock : D!held'[<<"socket", s>>] = sock'[s]
  BY <1>1 DEF D!held
<1>3. \A f \in Stream : D!held'[<<"stream", f>>] = stream'[f]
  BY <1>1 DEF D!held
<1>4. \A d \in Dir : D!held'[<<"directory", d>>] = dir'[d]
  BY <1>1 DEF D!held
<1> QED
  BY <1>2, <1>3, <1>4

LEMMA FdKinds == \A x \in D!Object : \/ x[2] \in Sock /\ x = <<"socket", x[2]>>
                                     \/ x[2] \in Stream /\ x = <<"stream", x[2]>>
                                     \/ x[2] \in Dir /\ x = <<"directory", x[2]>>
BY DEF D!Object

\* The only objects that change.
FdBecomes(o, v) == o \in D!Object /\ \A x \in D!Object : D!held'[x] = IF x = o THEN v ELSE D!held[x]
FdBothBecome(o, v, p, w) == /\ o \in D!Object /\ p \in D!Object
                            /\ \A x \in D!Object : D!held'[x] = IF x = o THEN v ELSE IF x = p THEN w ELSE D!held[x]

LEMMA SockSet == ASSUME FdTypes, NEW s \in Sock, NEW v, UNCHANGED <<stream, dir>>,
                        sock' = [sock EXCEPT ![s] = v]
                 PROVE  FdBecomes(<<"socket", s>>, v)
BY FdNumbers, FdNumbersAfter, FdKinds DEF FdTypes, FdBecomes

LEMMA StreamSet == ASSUME FdTypes, NEW f \in Stream, NEW v, UNCHANGED <<sock, dir>>,
                          stream' = [stream EXCEPT ![f] = v]
                   PROVE  FdBecomes(<<"stream", f>>, v)
BY FdNumbers, FdNumbersAfter, FdKinds DEF FdTypes, FdBecomes

LEMMA DirSet == ASSUME FdTypes, NEW d \in Dir, NEW v, UNCHANGED <<sock, stream>>,
                       dir' = [dir EXCEPT ![d] = v]
                PROVE  FdBecomes(<<"directory", d>>, v)
BY FdNumbers, FdNumbersAfter, FdKinds DEF FdTypes, FdBecomes

LEMMA SockSet2 == ASSUME FdTypes, NEW s \in Sock, NEW t \in Sock, NEW v, NEW w, s # t, UNCHANGED <<stream, dir>>,
                         sock' = [sock EXCEPT ![s] = v, ![t] = w]
                  PROVE  FdBothBecome(<<"socket", s>>, v, <<"socket", t>>, w)
BY FdNumbers, FdNumbersAfter, FdKinds DEF FdTypes, FdBothBecome

LEMMA StreamSet2 == ASSUME FdTypes, NEW s \in Stream, NEW t \in Stream, NEW v, NEW w, s # t, UNCHANGED <<sock, dir>>,
                           stream' = [stream EXCEPT ![s] = v, ![t] = w]
                    PROVE  FdBothBecome(<<"stream", s>>, v, <<"stream", t>>, w)
BY FdNumbers, FdNumbersAfter, FdKinds DEF FdTypes, FdBothBecome

LEMMA FdSame == ASSUME UNCHANGED <<sock, stream, dir>> PROVE D!held' = D!held
BY DEF D!held
-----------------------------------------------------------------------------
(* The ways in which a call changes descriptors and holders.               *)

\* NoLeak and OneOwner without sets.
FdKept(h, o, l) == \A n \in o : (\E x \in D!Object : h[x] = n) \/ n \in l
FdOwned(h, o, s) == \A n \in Fd \ s : \A x \in D!Object :
                       h[x] = n => n \in o /\ \A y \in D!Object : h[y] = n => x = y

LEMMA FdUnfold == /\ D!NoLeak <=> FdKept(D!held, open, lost)
                  /\ D!OneOwner <=> FdOwned(D!held, open, shared)
                  /\ D!NoLeak' <=> FdKept(D!held', open', lost')
                  /\ D!OneOwner' <=> FdOwned(D!held', open', shared')
BY DEF D!NoLeak, D!OneOwner, FdKept, FdOwned, D!Holders

\* A new descriptor goes to an object that had none.
LEMMA FdGiven == ASSUME FdIInv, NEW o, NEW n, FdBecomes(o, n), D!held[o] \notin Fd,
                        n \in Fd, n \notin open, open' = open \cup {n}, UNCHANGED <<shared, lost>>
                 PROVE  D!NoLeak' /\ D!OneOwner'
<1>1. FdKept(D!held', open', lost')
  BY FdUnfold DEF FdIInv, FdTypes, FdKept, FdBecomes
<1>2. FdOwned(D!held', open', shared')
  BY FdUnfold DEF FdIInv, FdTypes, FdOwned, FdBecomes
<1> QED
  BY <1>1, <1>2, FdUnfold

LEMMA FdGivenTwo == ASSUME FdIInv, NEW o, NEW n, NEW p, NEW m, FdBothBecome(o, n, p, m),
                           D!held[o] \notin Fd, D!held[p] \notin Fd, o # p,
                           n \in Fd, n \notin open, m \in Fd, m \notin open, n # m,
                           open' = open \cup {n, m}, UNCHANGED <<shared, lost>>
                    PROVE  D!NoLeak' /\ D!OneOwner'
<1>1. FdKept(D!held', open', lost')
  BY FdUnfold DEF FdIInv, FdTypes, FdKept, FdBothBecome
<1>2. FdOwned(D!held', open', shared')
  BY FdUnfold DEF FdIInv, FdTypes, FdOwned, FdBothBecome
<1> QED
  BY <1>1, <1>2, FdUnfold

\* An object closes what it has, if it has a descriptor.
LEMMA FdCloses == ASSUME FdIInv, NEW o, NEW v, FdBecomes(o, v), v \notin Fd,
                         open' = open \ {D!held[o]}, UNCHANGED <<shared, lost>>
                  PROVE  D!NoLeak' /\ D!OneOwner'
<1>1. FdKept(D!held', open', lost')
  BY FdUnfold DEF FdIInv, FdTypes, FdKept, FdBecomes
<1>2. FdOwned(D!held', open', shared')
  BY FdUnfold DEF FdIInv, FdTypes, FdOwned, FdBecomes
<1> QED
  BY <1>1, <1>2, FdUnfold

\* Objects that had no descriptor still have none.
LEMMA FdStayWithout == ASSUME FdIInv, NEW o, NEW v, NEW p, FdBothBecome(o, v, p, v), v \notin Fd,
                              D!held[o] \notin Fd, D!held[p] \notin Fd, UNCHANGED <<open, shared, lost>>
                       PROVE  D!NoLeak' /\ D!OneOwner'
<1>1. FdKept(D!held', open', lost')
  BY FdUnfold DEF FdIInv, FdTypes, FdKept, FdBothBecome
<1>2. FdOwned(D!held', open', shared')
  BY FdUnfold DEF FdIInv, FdTypes, FdOwned, FdBothBecome
<1> QED
  BY <1>1, <1>2, FdUnfold

\* A number goes to another object, from when on it is shared.
LEMMA FdShared == ASSUME FdIInv, NEW o, NEW n, FdBecomes(o, n), D!held[o] \notin Fd, n \in Fd,
                         shared' = shared \cup {n}, UNCHANGED <<open, lost>>
                  PROVE  D!NoLeak' /\ D!OneOwner'
<1>1. FdKept(D!held', open', lost')
  BY FdUnfold DEF FdIInv, FdTypes, FdKept, FdBecomes
<1>2. FdOwned(D!held', open', shared')
  BY FdUnfold DEF FdIInv, FdTypes, FdOwned, FdBecomes
<1> QED
  BY <1>1, <1>2, FdUnfold

\* Nothing changes for the holders, but there may be more that is lost.
LEMMA FdNothingElse == ASSUME FdIInv, D!held' = D!held, UNCHANGED <<open, shared, lost>>
                       PROVE  D!NoLeak' /\ D!OneOwner'
BY FdUnfold DEF FdIInv

LEMMA FdOneLost == ASSUME FdIInv, D!held' = D!held, NEW n, n \in Fd, n \notin open,
                          open' = open \cup {n}, lost' = lost \cup {n}, UNCHANGED shared
                   PROVE  D!NoLeak' /\ D!OneOwner'
BY FdUnfold DEF FdIInv, FdTypes, FdKept, FdOwned
-----------------------------------------------------------------------------
(* Each call keeps the invariant: sockets.                                 *)

LEMMA SocketKeeps == ASSUME D!KernelAssumption, FdIInv, NEW s \in Sock, D!Socket(s), UNCHANGED D!filesVars
                     PROVE  FdIInv'
<1> USE DEF D!filesVars, FdTypes
<1>1. CASE D!Unused # {} /\ open' = open \cup {D!First} /\ sock' = [sock EXCEPT ![s] = D!First]
  <2>1. D!First \in Fd /\ D!First \notin open
    BY <1>1, FirstUnused
  <2>2. FdBecomes(<<"socket", s>>, D!First) /\ D!held[<<"socket", s>>] \notin Fd
    BY <1>1, SockSet, FdNumbers, FdNoNumber DEF FdIInv, D!Socket
  <2>3. FdTypes'
    BY <1>1, <2>1 DEF FdIInv, D!Socket, FdNumber
  <2> QED
    BY <1>1, <2>1, <2>2, <2>3, FdGiven DEF FdIInv, D!Socket
<1>2. CASE UNCHANGED <<open, sock>>
  BY <1>2, FdSame, FdNothingElse DEF FdIInv, D!Socket
<1> QED
  BY <1>1, <1>2 DEF D!Socket

LEMMA SocketPairKeeps == ASSUME D!KernelAssumption, FdIInv, NEW s \in Sock, NEW t \in Sock, D!SocketPair(s, t), UNCHANGED D!filesVars
                         PROVE  FdIInv'
<1> USE DEF D!filesVars, FdTypes
<1>1. /\ <<"socket", s>> # <<"socket", t>>
      /\ D!held[<<"socket", s>>] \notin Fd /\ D!held[<<"socket", t>>] \notin Fd
  BY FdNumbers, FdNoNumber DEF D!SocketPair
<1>2. CASE /\ D!Cardinality(D!Unused) >= 2 /\ open' = open \cup {D!First, D!Second}
           /\ sock' = [sock EXCEPT ![s] = D!First, ![t] = D!Second]
  <2>1. /\ D!First \in Fd /\ D!First \notin open
        /\ D!Second \in Fd /\ D!Second \notin open /\ D!First # D!Second
    BY <1>2, SecondUnused
  <2>2. FdBothBecome(<<"socket", s>>, D!First, <<"socket", t>>, D!Second)
    BY <1>2, SockSet2 DEF FdIInv, D!SocketPair
  <2>3. FdTypes'
    BY <1>2, <2>1 DEF FdIInv, D!SocketPair, FdNumber
  <2> QED
    BY <1>1, <1>2, <2>1, <2>2, <2>3, FdGivenTwo DEF FdIInv, D!SocketPair
<1>3. CASE sock' = [sock EXCEPT ![s] = D!Closed, ![t] = D!Closed] /\ UNCHANGED open
  <2>1. FdBothBecome(<<"socket", s>>, D!Closed, <<"socket", t>>, D!Closed)
    BY <1>3, SockSet2 DEF FdIInv, D!SocketPair
  <2>2. FdTypes'
    BY <1>3 DEF FdIInv, D!SocketPair, FdNumber
  <2> QED
    BY <1>1, <1>3, <2>1, <2>2, FdNoNumber, FdStayWithout DEF FdIInv, D!SocketPair
<1> QED
  BY <1>2, <1>3 DEF D!SocketPair

LEMMA AcceptKeeps == ASSUME D!KernelAssumption, FdIInv, NEW s \in Sock, NEW t \in Sock, D!AcceptSock(s, t), UNCHANGED D!filesVars
                     PROVE  FdIInv'
<1> USE DEF D!filesVars, FdTypes
<1>1. D!held[<<"socket", t>>] \notin Fd
  BY FdNumbers, FdNoNumber DEF D!AcceptSock
<1>2. CASE D!Unused # {} /\ open' = open \cup {D!First} /\ sock' = [sock EXCEPT ![t] = D!First]
  <2>1. D!First \in Fd /\ D!First \notin open
    BY <1>2, FirstUnused
  <2>2. FdBecomes(<<"socket", t>>, D!First)
    BY <1>2, SockSet DEF FdIInv
  <2>3. FdTypes'
    BY <1>2, <2>1 DEF FdIInv, D!AcceptSock, FdNumber
  <2> QED
    BY <1>1, <1>2, <2>1, <2>2, <2>3, FdGiven DEF FdIInv, D!AcceptSock
<1>3. CASE sock' = [sock EXCEPT ![t] = D!Closed] /\ UNCHANGED open
  <2>1. FdBecomes(<<"socket", t>>, D!Closed)
    BY <1>3, SockSet DEF FdIInv
  <2>2. FdTypes'
    BY <1>3 DEF FdIInv, D!AcceptSock, FdNumber
  <2>3. open' = open \ {D!held[<<"socket", t>>]}
    BY <1>1, <1>3 DEF FdIInv
  <2> QED
    BY <2>1, <2>2, <2>3, FdNoNumber, FdCloses DEF FdIInv, D!AcceptSock
<1> QED
  BY <1>2, <1>3 DEF D!AcceptSock

LEMMA CloseSockStep == ASSUME D!KernelAssumption, FdIInv, NEW s \in Sock, D!CloseSock(s), UNCHANGED D!filesVars
                         PROVE  FdIInv'
<1> USE DEF D!filesVars, FdTypes
<1>1. CASE UNCHANGED <<open, sock>>
  BY <1>1, FdSame, FdNothingElse DEF FdIInv, D!CloseSock
<1>2. CASE open' = open \ {sock[s]} /\ sock' = [sock EXCEPT ![s] = D!Closed]
  <2>1. FdBecomes(<<"socket", s>>, D!Closed) /\ D!held[<<"socket", s>>] = sock[s]
    BY <1>2, SockSet, FdNumbers DEF FdIInv
  <2>2. FdTypes'
    BY <1>2 DEF FdIInv, D!CloseSock, FdNumber
  <2> QED
    BY <1>2, <2>1, <2>2, FdNoNumber, FdCloses DEF FdIInv, D!CloseSock
<1> QED
  BY <1>1, <1>2 DEF D!CloseSock

LEMMA CollectSockKeeps == ASSUME D!KernelAssumption, FdIInv, NEW s \in Sock, D!CollectSock(s), UNCHANGED D!filesVars
                          PROVE  FdIInv'
<1> USE DEF D!filesVars, FdTypes
<1>1. FdBecomes(<<"socket", s>>, D!Absent) /\ D!held[<<"socket", s>>] = sock[s]
  BY SockSet, FdNumbers DEF FdIInv, D!CollectSock
<1>2. open' = open \ {sock[s]}
  BY FdNoNumber DEF FdIInv, D!CollectSock
<1>3. FdTypes'
  BY DEF FdIInv, D!CollectSock, FdNumber
<1> QED
  BY <1>1, <1>2, <1>3, FdNoNumber, FdCloses DEF FdIInv, D!CollectSock

LEMMA DupSockKeeps == ASSUME D!KernelAssumption, FdIInv, NEW s \in Sock, D!DupSock(s), UNCHANGED D!filesVars
                      PROVE  FdIInv'
<1> USE DEF D!filesVars, FdTypes
<1>1. D!held' = D!held
  BY FdSame DEF D!DupSock
<1>2. CASE D!Unused # {} /\ open' = open \cup {D!First} /\ lost' = lost \cup {D!First}
  <2>1. D!First \in Fd /\ D!First \notin open
    BY <1>2, FirstUnused
  <2>2. FdTypes'
    BY <1>2, <2>1 DEF FdIInv, D!DupSock
  <2> QED
    BY <1>1, <1>2, <2>1, <2>2, FdOneLost DEF FdIInv, D!DupSock
<1>3. CASE UNCHANGED <<open, lost>>
  BY <1>1, <1>3, FdNothingElse DEF FdIInv, D!DupSock
<1> QED
  BY <1>2, <1>3 DEF D!DupSock

\* The calls that only say something.
LEMMA FdQuietKeeps == ASSUME FdIInv, UNCHANGED <<open, shared, lost, sock, stream, dir>>
                      PROVE  FdIInv'
BY FdSame, FdNothingElse DEF FdIInv, FdTypes

LEMMA AdoptSockKeeps == ASSUME D!KernelAssumption, FdIInv, NEW s \in Sock, NEW n \in Fd, D!AdoptSock(s, n), UNCHANGED D!filesVars
                        PROVE  FdIInv'
<1> USE DEF D!filesVars, FdTypes
<1>1. FdBecomes(<<"socket", s>>, n) /\ D!held[<<"socket", s>>] \notin Fd
  BY SockSet, FdNumbers, FdNoNumber DEF FdIInv, D!AdoptSock
<1>2. FdTypes'
  BY DEF FdIInv, D!AdoptSock, D!Share, FdNumber
<1> QED
  BY <1>1, <1>2, FdShared DEF FdIInv, D!AdoptSock, D!Share

LEMMA SockNextKeeps == ASSUME D!KernelAssumption, FdIInv, D!SockNext, UNCHANGED D!filesVars
                       PROVE  FdIInv'
<1>1. PICK s \in Sock : \/ D!Socket(s) \/ D!Bind(s) \/ D!SockCall(s) \/ D!Transfer(s)
                        \/ D!CloseSock(s) \/ D!CollectSock(s) \/ D!DupSock(s)
                        \/ \E t \in Sock : D!SocketPair(s, t) \/ D!AcceptSock(s, t)
  BY DEF D!SockNext
<1>2. CASE D!Bind(s) \/ D!SockCall(s) \/ D!Transfer(s)
  BY <1>2, FdQuietKeeps DEF D!Bind, D!SockCall, D!Transfer, D!filesVars
<1> QED
  BY <1>1, <1>2, SocketKeeps, CloseSockStep, CollectSockKeeps, DupSockKeeps, SocketPairKeeps, AcceptKeeps
-----------------------------------------------------------------------------
(* Files and directories.                                                  *)

LEMMA IoOpenKeeps == ASSUME D!KernelAssumption, FdIInv, NEW f \in Stream, D!IoOpen(f), UNCHANGED sock
                     PROVE  FdIInv'
<1> USE DEF D!dirVars, FdTypes
<1>1. D!First \in Fd /\ D!First \notin open
  BY FirstUnused DEF D!IoOpen
<1>2. FdBecomes(<<"stream", f>>, D!First) /\ D!held[<<"stream", f>>] \notin Fd
  BY StreamSet, FdNumbers, FdNoNumber DEF FdIInv, D!IoOpen
<1>3. FdTypes'
  BY <1>1 DEF FdIInv, D!IoOpen, FdNumber
<1> QED
  BY <1>1, <1>2, <1>3, FdGiven DEF FdIInv, D!IoOpen

LEMMA CloseStreamKeeps == ASSUME D!KernelAssumption, FdIInv, NEW f \in Stream, D!CloseStream(f), UNCHANGED sock
                          PROVE  FdIInv'
<1> USE DEF D!dirVars, FdTypes
<1>1. FdBecomes(<<"stream", f>>, D!Closed) /\ D!held[<<"stream", f>>] = stream[f]
  BY StreamSet, FdNumbers DEF FdIInv, D!CloseStream
<1>2. FdTypes'
  BY DEF FdIInv, D!CloseStream, FdNumber
<1> QED
  BY <1>1, <1>2, FdNoNumber, FdCloses DEF FdIInv, D!CloseStream

LEMMA CollectStreamKeeps == ASSUME D!KernelAssumption, FdIInv, NEW f \in Stream, D!CollectStream(f), UNCHANGED sock
                            PROVE  FdIInv'
<1> USE DEF D!dirVars, FdTypes
<1>1. FdBecomes(<<"stream", f>>, D!Absent) /\ D!held[<<"stream", f>>] = stream[f]
  BY StreamSet, FdNumbers DEF FdIInv, D!CollectStream
<1>2. open' = open \ {stream[f]}
  BY DEF FdIInv, D!CollectStream
<1>3. FdTypes'
  BY DEF FdIInv, D!CollectStream, FdNumber
<1> QED
  BY <1>1, <1>2, <1>3, FdNoNumber, FdCloses DEF FdIInv, D!CollectStream

LEMMA PipeKeeps == ASSUME D!KernelAssumption, FdIInv, NEW r \in Stream, NEW w \in Stream, D!Pipe(r, w), UNCHANGED sock
                   PROVE  FdIInv'
<1> USE DEF D!dirVars, FdTypes
<1>1. /\ <<"stream", r>> # <<"stream", w>>
      /\ D!held[<<"stream", r>>] \notin Fd /\ D!held[<<"stream", w>>] \notin Fd
  BY FdNumbers, FdNoNumber DEF D!Pipe
<1>2. CASE D!PipeCut(r, w)
  <2>1. FdBothBecome(<<"stream", r>>, D!Closed, <<"stream", w>>, D!Closed)
    BY <1>2, StreamSet2 DEF FdIInv, D!Pipe, D!PipeCut
  <2>2. FdTypes'
    BY <1>2 DEF FdIInv, D!Pipe, D!PipeCut, FdNumber
  <2> QED
    BY <1>1, <1>2, <2>1, <2>2, FdNoNumber, FdStayWithout DEF FdIInv, D!Pipe, D!PipeCut
<1>3. CASE /\ D!Cardinality(D!Unused) >= 2 /\ open' = open \cup {D!First, D!Second}
           /\ stream' = [stream EXCEPT ![r] = D!First, ![w] = D!Second]
  <2>1. /\ D!First \in Fd /\ D!First \notin open
        /\ D!Second \in Fd /\ D!Second \notin open /\ D!First # D!Second
    BY <1>3, SecondUnused
  <2>2. FdBothBecome(<<"stream", r>>, D!First, <<"stream", w>>, D!Second)
    BY <1>3, StreamSet2 DEF FdIInv, D!Pipe
  <2>3. FdTypes'
    BY <1>3, <2>1 DEF FdIInv, D!Pipe, FdNumber
  <2> QED
    BY <1>1, <1>3, <2>1, <2>2, <2>3, FdGivenTwo DEF FdIInv, D!Pipe
<1> QED
  BY <1>2, <1>3 DEF D!Pipe

LEMMA AdoptStreamKeeps == ASSUME D!KernelAssumption, FdIInv, NEW f \in Stream, NEW n \in Fd, D!AdoptStream(f, n), UNCHANGED sock
                          PROVE  FdIInv'
<1> USE DEF D!dirVars, FdTypes
<1>1. CASE stream' = [stream EXCEPT ![f] = n] /\ D!Share(n)
  <2>1. FdBecomes(<<"stream", f>>, n) /\ D!held[<<"stream", f>>] \notin Fd
    BY <1>1, StreamSet, FdNumbers, FdNoNumber DEF FdIInv, D!AdoptStream
  <2>2. FdTypes'
    BY <1>1 DEF FdIInv, D!AdoptStream, D!Share, FdNumber
  <2> QED
    BY <1>1, <2>1, <2>2, FdShared DEF FdIInv, D!AdoptStream, D!Share
<1>2. CASE UNCHANGED <<stream, shared>>
  BY <1>2, FdQuietKeeps DEF D!AdoptStream
<1> QED
  BY <1>1, <1>2 DEF D!AdoptStream

LEMMA DupStreamKeeps == ASSUME D!KernelAssumption, FdIInv, NEW f \in Stream, D!DupStream(f), UNCHANGED sock
                        PROVE  FdIInv'
<1> USE DEF D!filesVars, FdTypes
<1>1. D!held' = D!held
  BY FdSame DEF D!DupStream
<1>2. CASE D!Unused # {} /\ open' = open \cup {D!First} /\ lost' = lost \cup {D!First}
  <2>1. D!First \in Fd /\ D!First \notin open
    BY <1>2, FirstUnused
  <2>2. FdTypes'
    BY <1>2, <2>1 DEF FdIInv, D!DupStream
  <2> QED
    BY <1>1, <1>2, <2>1, <2>2, FdOneLost DEF FdIInv, D!DupStream
<1>3. CASE UNCHANGED <<open, lost>>
  BY <1>1, <1>3, FdNothingElse DEF FdIInv, D!DupStream
<1> QED
  BY <1>2, <1>3 DEF D!DupStream

LEMMA OpenDirKeeps == ASSUME D!KernelAssumption, FdIInv, NEW d \in Dir, D!OpenDir(d), UNCHANGED sock
                      PROVE  FdIInv'
<1> USE DEF D!dirVars, FdTypes
<1>1. CASE D!Unused # {} /\ open' = open \cup {D!First} /\ dir' = [dir EXCEPT ![d] = D!First]
  <2>1. D!First \in Fd /\ D!First \notin open
    BY <1>1, FirstUnused
  <2>2. FdBecomes(<<"directory", d>>, D!First) /\ D!held[<<"directory", d>>] \notin Fd
    BY <1>1, DirSet, FdNumbers, FdNoNumber DEF FdIInv, D!OpenDir
  <2>3. FdTypes'
    BY <1>1, <2>1 DEF FdIInv, D!OpenDir, FdNumber
  <2> QED
    BY <1>1, <2>1, <2>2, <2>3, FdGiven DEF FdIInv, D!OpenDir
<1>2. CASE UNCHANGED <<open, dir>>
  BY <1>2, FdQuietKeeps DEF D!OpenDir
<1> QED
  BY <1>1, <1>2 DEF D!OpenDir

LEMMA DirNextKeeps == ASSUME D!KernelAssumption, FdIInv, NEW d \in Dir, D!DirNext(d), UNCHANGED sock
                      PROVE  FdIInv'
<1> USE DEF FdTypes
<1>1. CASE UNCHANGED <<open, dir>>
  BY <1>1, FdQuietKeeps DEF D!DirNext
<1>2. CASE D!CloseDir(d)
  <2>1. FdBecomes(<<"directory", d>>, D!Closed) /\ D!held[<<"directory", d>>] = dir[d]
    BY <1>2, DirSet, FdNumbers DEF FdIInv, D!DirNext, D!CloseDir
  <2>2. FdTypes'
    BY <1>2 DEF FdIInv, D!DirNext, D!CloseDir, FdNumber
  <2> QED
    BY <1>2, <2>1, <2>2, FdNoNumber, FdCloses DEF FdIInv, D!DirNext, D!CloseDir
<1> QED
  BY <1>1, <1>2 DEF D!DirNext

LEMMA CollectDirKeeps == ASSUME D!KernelAssumption, FdIInv, NEW d \in Dir, D!CollectDir(d), UNCHANGED sock
                         PROVE  FdIInv'
<1> USE DEF FdTypes
<1>1. FdBecomes(<<"directory", d>>, D!Absent) /\ D!held[<<"directory", d>>] = dir[d]
  BY DirSet, FdNumbers DEF FdIInv, D!CollectDir
<1>2. open' = open \ {dir[d]}
  BY DEF FdIInv, D!CollectDir
<1>3. FdTypes'
  BY DEF FdIInv, D!CollectDir, FdNumber
<1> QED
  BY <1>1, <1>2, <1>3, FdNoNumber, FdCloses DEF FdIInv, D!CollectDir

LEMMA FilesNextKeeps == ASSUME D!KernelAssumption, FdIInv, D!FilesNext, UNCHANGED sock
                        PROVE  FdIInv'
<1>1. CASE D!PathCall \/ D!PathQuery
  BY <1>1, FdQuietKeeps DEF D!PathCall, D!PathQuery, D!filesVars
<1>2. CASE \E f \in Stream : D!StreamStep(f)
  <2>1. PICK f \in Stream : D!StreamStep(f)
    BY <1>2
  <2>2. CASE D!Lock(f) \/ D!Fsync(f) \/ D!StrayStream(f)
    BY <2>2, FdQuietKeeps DEF D!Lock, D!Fsync, D!StrayStream, D!filesVars
  <2> QED
    BY <2>1, <2>2, IoOpenKeeps, CloseStreamKeeps, CollectStreamKeeps, DupStreamKeeps, PipeKeeps DEF D!StreamStep
<1>3. CASE \E d \in Dir : D!DirStep(d)
  <2>1. PICK d \in Dir : D!DirStep(d)
    BY <1>3
  <2>2. CASE D!DirRead(d) \/ D!DirRewind(d) \/ D!StrayDir(d)
    BY <2>2, FdQuietKeeps DEF D!DirRead, D!DirRewind, D!StrayDir, D!filesVars
  <2> QED
    BY <2>1, <2>2, OpenDirKeeps, DirNextKeeps, CollectDirKeeps DEF D!DirStep
<1> QED
  BY <1>1, <1>2, <1>3 DEF D!FilesNext
-----------------------------------------------------------------------------
(* Numbers that go from one kind of object to the other, and the theorems. *)

LEMMA RawCloseKeeps == ASSUME FdIInv, D!RawClose PROVE FdIInv'
<1>1. PICK n \in D!Known : /\ open' = open \ {n} /\ D!Share(n)
                           /\ UNCHANGED <<sock, D!filesVars, lost, crash>>
  BY DEF D!RawClose
<1>2. D!held' = D!held /\ shared' = shared \cup {n} /\ n \in Fd
  BY <1>1, FdSame DEF D!filesVars, D!Share, D!Known
<1>3. D!NoLeak' /\ D!OneOwner'
  BY <1>1, <1>2, FdUnfold DEF FdIInv, FdKept, FdOwned
<1> QED
  BY <1>1, <1>2, <1>3 DEF FdIInv, FdTypes, D!filesVars

LEMMA RedirectKeeps == ASSUME FdIInv, D!Redirect PROVE FdIInv'
<1>1. PICK n \in D!Known : open' \in {open, open \cup {n}} /\ UNCHANGED <<sock, D!filesVars, shared, lost, crash>>
  BY DEF D!Redirect
<1>2. D!held' = D!held /\ n \in Fd /\ \E x \in D!Object : D!held[x] = n
  BY <1>1, FdSame DEF D!filesVars, D!Known, D!Holders
<1>3. D!NoLeak' /\ D!OneOwner'
  BY <1>1, <1>2, FdUnfold DEF FdIInv, FdKept, FdOwned
<1> QED
  BY <1>1, <1>2, <1>3 DEF FdIInv, FdTypes, D!filesVars

LEMMA ForgetKeeps == ASSUME FdIInv, D!Forget PROVE FdIInv'
<1>1. D!held' = D!held
  BY FdSame DEF D!Forget, D!filesVars
<1>2. \A n \in Fd : n \in shared /\ n \notin shared' => ~ \E x \in D!Object : D!held[x] = n
  BY DEF D!Forget, D!Settle, D!Holders
<1>3. D!NoLeak' /\ D!OneOwner'
  BY <1>1, <1>2, FdUnfold DEF FdIInv, FdKept, FdOwned, D!Forget
<1> QED
  BY <1>3 DEF FdIInv, FdTypes, D!filesVars, D!Forget

LEMMA FdInitHolds == ASSUME D!KernelAssumption, D!Init PROVE FdIInv
<1>1. FdTypes
  BY DEF D!Init, D!KernelInit, D!SockInit, D!FilesInit, FdTypes, FdNumber
<1>2. \A x \in D!Object : D!held[x] = D!Absent
  BY FdNumbers, FdKinds DEF D!Init, D!SockInit, D!FilesInit
<1>3. D!NoLeak
  BY DEF D!Init, D!KernelInit, D!NoLeak
<1>4. D!OneOwner
  BY <1>2, FdNoNumber DEF D!OneOwner, D!Holders
<1> QED
  BY <1>1, <1>3, <1>4 DEF FdIInv

LEMMA FdNextKeeps == ASSUME D!KernelAssumption, FdIInv, [D!Next]_(D!vars) PROVE FdIInv'
<1>1. CASE D!Step
  <2>1. CASE \E s \in Sock : D!SocketFile(s)
    BY <2>1, AdoptSockKeeps DEF D!SocketFile, D!Known
  <2>2. CASE \E f \in Stream : D!IoFromFd(f)
    BY <2>2, AdoptStreamKeeps DEF D!IoFromFd, D!Known
  <2> QED
    BY <1>1, <2>1, <2>2, SockNextKeeps, FilesNextKeeps, RawCloseKeeps, RedirectKeeps DEF D!Step
<1>2. CASE D!Forget
  BY <1>2, ForgetKeeps
<1>3. CASE UNCHANGED D!vars
  BY <1>3, FdQuietKeeps DEF D!vars, D!kernelVars, D!filesVars
<1> QED
  BY <1>1, <1>2, <1>3 DEF D!Next

-----------------------------------------------------------------------------
(* What the program is told, and where it is in its directories.            *)

\* The answers that are true, but for the calls that TrueAnswer names.
FdAnswer == {t \in [call : {"any", "fclose", "fsync", "_lock", "_close", "dup"}, did : BOOLEAN, okay : BOOLEAN,
                    err : {0, D!EFAIL}] :
               /\ t.okay /\ ~ t.did => t.call \in {"fclose", "fsync"}
               /\ t.did /\ ~ t.okay => t.call \in {"_lock", "dup"}
               /\ t.okay /\ t.err # 0 => t.call = "_close"}

FdSaid == errno \in {0, D!EFAIL} /\ crash \in BOOLEAN /\ told \in FdAnswer

FdPlaces == /\ place \in [Dir -> 0 .. Len(Entries)]
            /\ \A d \in Dir : dir[d] = D!Closed => place[d] = Len(Entries)

FdAnswers == FdSaid /\ FdPlaces

LEMMA FdEntries == Len(Entries) \in Nat
BY Assumptions DEF D!FilesAssumption

LEMMA FdSaidInit == D!Init => FdAnswers
<1> SUFFICES ASSUME D!Init PROVE FdAnswers
  OBVIOUS
<1>1. FdSaid
  BY DEF D!Init, D!KernelInit, FdSaid, FdAnswer
<1>2. FdPlaces
  BY FdEntries DEF D!Init, D!FilesInit, FdPlaces, D!Absent, D!Closed
<1> QED
  BY <1>1, <1>2 DEF FdAnswers

\* A call that is answered as it went, and one that is not but has a name for it.
LEMMA FdTells ==
  ASSUME FdSaid, errno' \in {0, D!EFAIL}, crash' \in BOOLEAN,
         NEW what \in {"any", "fclose", "fsync", "_lock", "_close", "dup"},
         NEW did \in BOOLEAN, NEW okay \in BOOLEAN, NEW err \in {0, D!EFAIL}, D!Tell(what, did, okay, err),
         okay /\ ~ did => what \in {"fclose", "fsync"}, did /\ ~ okay => what \in {"_lock", "dup"},
         okay /\ err # 0 => what = "_close"
  PROVE  FdSaid'
<1> DEFINE t == [call |-> what, did |-> did, okay |-> okay, err |-> err]
<1>1. t \in FdAnswer
  BY DEF FdAnswer
<1> QED
  BY <1>1 DEF D!Tell, FdSaid

LEMMA FdSays == ASSUME FdSaid, UNCHANGED crash, D!Works \/ D!Fails \/ D!Checked PROVE FdSaid'
<1>1. ASSUME D!Works PROVE FdSaid'
  BY <1>1, FdTells DEF D!Works, FdSaid
<1>2. ASSUME D!Fails PROVE FdSaid'
  BY <1>2, FdTells DEF D!Fails, FdSaid
<1>3. ASSUME D!Checked PROVE FdSaid'
  <2> PICK did \in BOOLEAN : errno' = (IF did THEN 0 ELSE D!EFAIL) /\ D!Tell("any", did, errno' = 0, errno')
    BY <1>3 DEF D!Checked
  <2>1. D!EFAIL # 0
    BY DEF D!EFAIL
  <2>2. did \in BOOLEAN /\ (errno' = 0) \in BOOLEAN /\ errno' \in {0, D!EFAIL} /\ (did <=> errno' = 0)
    BY <2>1
  <2> QED
    BY <2>2, FdTells DEF FdSaid
<1> QED
  BY <1>1, <1>2, <1>3

LEMMA FdSilent == ASSUME FdSaid, UNCHANGED <<told, crash>>, errno' \in {0, D!EFAIL} PROVE FdSaid'
BY DEF FdSaid

LEMMA FdSockSays == ASSUME FdSaid, D!SockNext PROVE FdSaid'
<1>0. D!EFAIL # 0 /\ errno \in {0, D!EFAIL} /\ crash \in BOOLEAN
  BY DEF D!EFAIL, FdSaid
<1>1. ASSUME NEW s \in Sock, D!Socket(s) \/ D!SockCall(s) \/ D!Transfer(s) PROVE FdSaid'
  BY <1>1, FdSays DEF D!Socket, D!SockCall, D!Transfer
<1>2. ASSUME NEW s \in Sock, NEW t \in Sock, D!SocketPair(s, t) \/ D!AcceptSock(s, t) PROVE FdSaid'
  BY <1>2, FdSays DEF D!SocketPair, D!AcceptSock
<1>3. ASSUME NEW s \in Sock, D!Bind(s) PROVE FdSaid'
  <2>1. PICK good \in BOOLEAN : /\ D!Tell("any", good, good, IF good THEN 0 ELSE D!EFAIL)
                                /\ errno' = IF good THEN errno ELSE D!EFAIL
    BY <1>3 DEF D!Bind
  <2> QED
    BY <1>0, <1>3, <2>1, FdTells DEF D!Bind
<1>4. ASSUME NEW s \in Sock, D!CloseSock(s) PROVE FdSaid'
  <2>1. CASE D!Tell("any", TRUE, TRUE, 0) /\ UNCHANGED errno
    BY <1>0, <1>4, <2>1, FdTells DEF D!CloseSock
  <2>2. CASE D!Tell("any", errno' = 0, errno' = 0, errno') /\ errno' \in {0, D!EFAIL}
    <3>1. (errno' = 0) \in BOOLEAN
      OBVIOUS
    <3> QED
      BY <1>0, <1>4, <2>2, <3>1, FdTells DEF D!CloseSock
  <2> QED
    BY <1>4, <2>1, <2>2 DEF D!CloseSock
<1>5. ASSUME NEW s \in Sock, D!CollectSock(s) PROVE FdSaid'
  BY <1>0, <1>5, FdSilent DEF D!CollectSock
<1>6. ASSUME NEW s \in Sock, D!DupSock(s) PROVE FdSaid'
  <2>1. CASE D!Tell("dup", TRUE, FALSE, D!EFAIL) /\ UNCHANGED errno
    BY <1>0, <1>6, <2>1, FdTells DEF D!DupSock
  <2>2. CASE D!Fails
    BY <1>6, <2>2, FdSays DEF D!DupSock
  <2> QED
    BY <1>6, <2>1, <2>2 DEF D!DupSock
<1> QED
  BY <1>1, <1>2, <1>3, <1>4, <1>5, <1>6 DEF D!SockNext

LEMMA FdStreamSays == ASSUME FdSaid, NEW f \in Stream, D!StreamStep(f) PROVE FdSaid'
<1>0. D!EFAIL # 0 /\ errno \in {0, D!EFAIL} /\ crash \in BOOLEAN
  BY DEF D!EFAIL, FdSaid
<1>1. CASE D!IoOpen(f)
  BY <1>1, FdSays DEF D!IoOpen
<1>2. CASE D!CloseStream(f)
  <2> PICK written \in BOOLEAN : errno' = (IF written THEN errno ELSE D!EFAIL) /\ D!Tell("fclose", written, TRUE, 0)
    BY <1>2 DEF D!CloseStream
  <2> QED
    BY <1>0, <1>2, FdTells DEF D!CloseStream
<1>3. CASE D!CollectStream(f)
  BY <1>0, <1>3, FdSilent DEF D!CollectStream
<1>4. CASE D!DupStream(f)
  <2>1. CASE D!Tell("dup", TRUE, FALSE, D!EFAIL) /\ UNCHANGED errno
    BY <1>0, <1>4, <2>1, FdTells DEF D!DupStream
  <2>2. CASE D!Fails
    BY <1>4, <2>2, FdSays DEF D!DupStream
  <2> QED
    BY <1>4, <2>1, <2>2 DEF D!DupStream
<1>5. CASE D!Lock(f)
  <2> PICK did \in BOOLEAN : errno' = (IF did THEN errno ELSE D!EFAIL) /\ D!Tell("_lock", did, errno' = 0, errno')
    BY <1>5 DEF D!Lock
  <2>1. (errno' = 0) \in BOOLEAN /\ errno' \in {0, D!EFAIL} /\ (~ did => errno' # 0)
    BY <1>0
  <2> QED
    BY <1>0, <1>5, <2>1, FdTells DEF D!Lock
<1>6. CASE D!Fsync(f)
  <2>1. D!Tell("fsync", FALSE, errno' = 0, errno') /\ errno' \in {0, D!EFAIL} /\ (errno' = 0) \in BOOLEAN
    BY <1>6 DEF D!Fsync
  <2> QED
    BY <1>0, <1>6, <2>1, FdTells DEF D!Fsync
<1>7. CASE D!StrayStream(f)
  BY <1>0, <1>7, FdTells DEF D!StrayStream, D!Crash
<1>8. ASSUME NEW g \in Stream, D!Pipe(f, g) PROVE FdSaid'
  BY <1>8, FdSays DEF D!Pipe, D!PipeCut
<1> QED
  BY <1>1, <1>2, <1>3, <1>4, <1>5, <1>6, <1>7, <1>8 DEF D!StreamStep

LEMMA FdDirSays == ASSUME FdSaid, NEW d \in Dir, D!DirStep(d), place[d] \in Nat PROVE FdSaid'
<1>0. D!EFAIL # 0 /\ errno \in {0, D!EFAIL} /\ crash \in BOOLEAN
  BY DEF D!EFAIL, FdSaid
<1>1. CASE D!OpenDir(d)
  BY <1>1, FdSays DEF D!OpenDir
<1>2. CASE D!DirRead(d)
  <2>1. (place[d] < Len(Entries)) \in BOOLEAN
    OBVIOUS
  <2> QED
    BY <1>0, <1>2, <2>1, FdTells DEF D!DirRead
<1>3. CASE D!DirNext(d)
  <2>1. D!Tell("any", TRUE, TRUE, 0) \/ D!Tell("any", FALSE, FALSE, 0)
    BY <1>3 DEF D!DirNext
  <2> QED
    BY <1>0, <1>3, <2>1, FdTells DEF D!DirNext
<1>4. CASE D!DirRewind(d) \/ D!CollectDir(d)
  BY <1>0, <1>4, FdSilent DEF D!DirRewind, D!CollectDir
<1>5. CASE D!StrayDir(d)
  BY <1>0, <1>5, FdTells DEF D!StrayDir, D!Crash
<1> QED
  BY <1>1, <1>2, <1>3, <1>4, <1>5 DEF D!DirStep

LEMMA FdStepSays == ASSUME FdSaid, FdPlaces, D!Step PROVE FdSaid'
<1>0. D!EFAIL # 0 /\ errno \in {0, D!EFAIL} /\ crash \in BOOLEAN
  BY DEF D!EFAIL, FdSaid
<1>1. CASE D!FilesNext
  <2>1. CASE D!PathCall
    BY <2>1, FdSays DEF D!PathCall
  <2>2. CASE D!PathQuery
    <3>1. CASE errno' = D!EFAIL /\ D!Tell("any", TRUE, TRUE, 0)
      BY <1>0, <2>2, <3>1, FdTells DEF D!PathQuery
    <3> QED
      BY <2>2, <3>1, FdSays DEF D!PathQuery
  <2>3. \A d \in Dir : place[d] \in Nat
    BY FdEntries DEF FdPlaces
  <2> QED
    BY <1>1, <2>1, <2>2, <2>3, FdStreamSays, FdDirSays DEF D!FilesNext
<1>2. ASSUME NEW s \in Sock, D!SocketFile(s) PROVE FdSaid'
  BY <1>2, FdSays DEF D!SocketFile, D!AdoptSock
<1>3. ASSUME NEW f \in Stream, D!IoFromFd(f) PROVE FdSaid'
  BY <1>3, FdSays DEF D!IoFromFd, D!AdoptStream
<1>4. CASE D!RawClose
  <2> PICK n \in D!Known : /\ errno' = (IF n \in open THEN errno ELSE D!EFAIL)
                           /\ D!Tell("_close", n \in open, n \in open, errno') /\ UNCHANGED crash
    BY <1>4 DEF D!RawClose
  <2>1. (n \in open) \in BOOLEAN
    OBVIOUS
  <2> QED
    BY <1>0, <2>1, FdTells
<1>5. CASE D!Redirect
  <2>1. /\ errno' \in {0, D!EFAIL} /\ (errno' = 0) \in BOOLEAN /\ UNCHANGED crash
        /\ D!Tell("any", errno' = 0, errno' = 0, errno')
    BY <1>5 DEF D!Redirect
  <2> QED
    BY <1>0, <2>1, FdTells
<1> QED
  BY <1>1, <1>2, <1>3, <1>4, <1>5, FdSockSays DEF D!Step

\* The place of one directory changes.
LEMMA FdPlaced == ASSUME FdTypes, FdPlaces, NEW d \in Dir, NEW v, NEW p \in 0 .. Len(Entries), v = D!Closed => p = Len(Entries),
                         dir' = [dir EXCEPT ![d] = v], place' = [place EXCEPT ![d] = p]
                  PROVE  FdPlaces'
BY DEF FdTypes, FdPlaces

LEMMA FdDirPlaces == ASSUME FdTypes, FdPlaces, NEW d \in Dir, D!DirStep(d) PROVE FdPlaces'
<1>0. /\ Len(Entries) \in Nat /\ place[d] \in 0 .. Len(Entries) /\ place \in [Dir -> 0 .. Len(Entries)]
      /\ dir \in [Dir -> FdNumber] /\ 0 \in 0 .. Len(Entries) /\ Len(Entries) \in 0 .. Len(Entries)
  BY FdEntries DEF FdPlaces, FdTypes
<1>1. CASE D!OpenDir(d)
  <2>1. CASE UNCHANGED D!dirVars
    BY <2>1 DEF FdPlaces, D!dirVars
  <2>2. CASE D!Unused # {} /\ dir' = [dir EXCEPT ![d] = D!First] /\ place' = [place EXCEPT ![d] = 0]
    <3>1. D!First # D!Closed
      BY <2>2, FirstUnused, FdNoNumber, Assumptions
    <3> QED
      BY <1>0, <2>2, <3>1, FdPlaced
  <2> QED
    BY <1>1, <2>1, <2>2 DEF D!OpenDir
<1>2. CASE D!DirRead(d)
  <2> DEFINE p == IF place[d] < Len(Entries) THEN place[d] + 1 ELSE place[d]
  <2>1. /\ p \in 0 .. Len(Entries) /\ place' = [place EXCEPT ![d] = p]
        /\ dir' = [dir EXCEPT ![d] = dir[d]] /\ dir[d] # D!Closed
    BY <1>0, <1>2, FdNoNumber, Assumptions DEF D!DirRead
  <2> HIDE DEF p
  <2> QED
    BY <2>1, FdPlaced
<1>3. CASE D!DirNext(d)
  <2>1. CASE D!NamesAfter(place[d]) # {}
    <3> DEFINE p == D!Lowest(D!NamesAfter(place[d]))
    <3>1. D!NamesAfter(place[d]) \subseteq place[d] + 1 .. Len(Entries)
      BY DEF D!NamesAfter
    <3>2. D!NamesAfter(place[d]) \in SUBSET Nat
      BY <1>0, <3>1
    <3>3. p \in D!NamesAfter(place[d])
      BY <2>1, <3>2, LowestIn
    <3>4. p \in 0 .. Len(Entries)
      BY <1>0, <3>1, <3>3
    <3>5. /\ place' = [place EXCEPT ![d] = p]
          /\ dir' = [dir EXCEPT ![d] = dir[d]] /\ dir[d] # D!Closed
      BY <1>0, <1>3, <2>1, FdNoNumber, Assumptions DEF D!DirNext
    <3> HIDE DEF p
    <3> QED
      BY <3>4, <3>5, FdPlaced
  <2>2. CASE ~ (D!NamesAfter(place[d]) # {})
    <3>1. dir' = [dir EXCEPT ![d] = D!Closed] /\ place' = [place EXCEPT ![d] = Len(Entries)]
      BY <1>3, <2>2 DEF D!DirNext, D!CloseDir
    <3> QED
      BY <1>0, <3>1, FdPlaced
  <2> QED
    BY <2>1, <2>2
<1>4. CASE D!DirRewind(d)
  <2>1. /\ place' = [place EXCEPT ![d] = 0]
        /\ dir' = [dir EXCEPT ![d] = dir[d]] /\ dir[d] # D!Closed
    BY <1>0, <1>4, FdNoNumber, Assumptions DEF D!DirRewind
  <2> QED
    BY <1>0, <2>1, FdPlaced
<1>5. CASE D!CollectDir(d)
  <2>1. D!Absent # D!Closed
    BY DEF D!Absent, D!Closed
  <2> QED
    BY <1>0, <1>5, <2>1, FdPlaced DEF D!CollectDir
<1>6. CASE D!StrayDir(d)
  BY <1>6 DEF FdPlaces, D!StrayDir, D!filesVars
<1> QED
  BY <1>1, <1>2, <1>3, <1>4, <1>5, <1>6 DEF D!DirStep

LEMMA FdPlacesKept == ASSUME FdTypes, FdPlaces, D!Step PROVE FdPlaces'
<1>1. CASE UNCHANGED D!dirVars
  BY <1>1 DEF FdPlaces, D!dirVars
<1>2. ASSUME NEW f \in Stream, D!StreamStep(f) PROVE UNCHANGED D!dirVars
  BY <1>2 DEF D!StreamStep, D!IoOpen, D!CloseStream, D!CollectStream, D!DupStream, D!Lock, D!Fsync, D!StrayStream, D!Pipe,
              D!dirVars, D!filesVars
<1>3. CASE D!FilesNext
  BY <1>1, <1>2, <1>3, FdDirPlaces DEF D!FilesNext, D!PathCall, D!PathQuery, D!dirVars, D!filesVars
<1>4. ASSUME NEW f \in Stream, D!IoFromFd(f) PROVE UNCHANGED D!dirVars
  BY <1>4 DEF D!IoFromFd, D!AdoptStream, D!dirVars
<1> QED
  BY <1>1, <1>3, <1>4 DEF D!Step, D!SocketFile, D!RawClose, D!Redirect, D!filesVars, D!dirVars

LEMMA FdAnswersKeep == ASSUME FdIInv, FdAnswers, [D!Next]_(D!vars) PROVE FdAnswers'
<1>1. CASE D!Step
  BY <1>1, FdStepSays, FdPlacesKept DEF FdIInv, FdAnswers
<1>2. CASE D!Forget
  BY <1>2 DEF D!Forget, FdAnswers, FdSaid, FdPlaces, D!filesVars
<1>3. CASE UNCHANGED D!vars
  BY <1>3 DEF D!vars, D!kernelVars, D!filesVars, FdAnswers, FdSaid, FdPlaces
<1> QED
  BY <1>1, <1>2, <1>3 DEF D!Next

LEMMA FdAnswersKept == FdIInv /\ FdAnswers => D!TypeOK /\ D!TrueAnswer
<1> SUFFICES ASSUME FdIInv, FdAnswers PROVE D!TypeOK /\ D!TrueAnswer
  OBVIOUS
<1>1. D!TrueAnswer
  BY DEF D!TrueAnswer, FdAnswers, FdSaid, FdAnswer, FdPlaces
<1>2. D!KernelTypeOK
  BY DEF D!KernelTypeOK, FdAnswers, FdSaid, FdAnswer, FdIInv, FdTypes
<1>3. D!SockTypeOK /\ D!FilesTypeOK
  BY DEF D!SockTypeOK, D!FilesTypeOK, FdIInv, FdTypes, FdNumber, FdAnswers, FdPlaces
<1> QED
  BY <1>1, <1>2, <1>3 DEF D!TypeOK

\* The strengthened invariant holds in all states.
THEOREM FdInvariance == ASSUME D!KernelAssumption PROVE D!Spec => []FdIInv
<1>1. D!Init => FdIInv
  BY FdInitHolds
<1>2. FdIInv /\ [D!Next]_(D!vars) => FdIInv'
  BY FdNextKeeps
<1> QED
  BY <1>1, <1>2, PTL DEF D!Spec

\* Whichever calls fail half way, and in whatever order objects are closed,
\* collected and made again, a descriptor has one object that will close it.
THEOREM Ownership == ASSUME D!KernelAssumption PROVE D!Spec => []D!OneOwner
<1>1. FdIInv => D!OneOwner
  BY DEF FdIInv
<1> QED
  BY <1>1, FdInvariance, PTL

\* No call leaves a descriptor open that no object can close, but _dup().
THEOREM Leakless == ASSUME D!KernelAssumption PROVE D!Spec => []D!NoLeak
<1>1. FdIInv => D!NoLeak
  BY DEF FdIInv
<1> QED
  BY <1>1, FdInvariance, PTL
-----------------------------------------------------------------------------
(* The program is told the end of each of its children once, and told as it *)
(* was, for any number of children and any order of calls.                 *)

ChildTypes == /\ life \in [Child -> {"none", "runs", "stopped", "ended"}]
              /\ ends \in [Child -> C!Ends \cup {C!Stop, C!Continue, Nothing}]
              /\ fate \in [Child -> C!Ends \cup {Nothing}]
              /\ DOMAIN heard = Child /\ heard = [c \in Child |-> heard[c]]
              /\ times \in [Child -> 0 .. 1]

\* What is known of a child: the kernel has the end of one that ended, and of no
\* other; it was told when the child is gone.
ChildKnown(c) == /\ life[c] = "ended" => fate[c] \in C!Ends /\ ends[c] = fate[c]
                 /\ life[c] \in {"runs", "stopped"} => fate[c] = Nothing
                 /\ times[c] = (IF fate[c] # Nothing /\ life[c] = "none" THEN 1 ELSE 0)
                 /\ times[c] = 1 => /\ heard[c].rc = fate[c].rc
                                    /\ heard[c].status = "normal" <=> fate[c].how = "exited"
                                    /\ heard[c].status \in {"normal", "terminated"}

ChildIInv == ChildTypes /\ \A c \in Child : ChildKnown(c)

\* What both ways of telling an end say of it.
ChildAsItWas(report, what) == /\ report.rc = what.rc
                              /\ report.status = "normal" <=> what.how = "exited"
                              /\ report.status \in {"normal", "terminated"}

LEMMA ChildEndKinds == ASSUME NEW what \in C!Ends
                       PROVE what.how = "exited" \/ what.how = "killed" \/ what.how = "dumped"
BY DEF C!Ends, C!News

LEMMA ChildStatusTold == ASSUME NEW c, NEW what \in C!Ends
                         PROVE ChildAsItWas(C!proc_pushstatus(c, what), what)
<1>1. CASE what.how = "exited"
  <2>1. C!proc_pushstatus(c, what) = C!Report(c, "normal", what.rc)
    BY <1>1, Zenon DEF C!proc_pushstatus
  <2> QED
    BY <1>1, <2>1 DEF ChildAsItWas, C!Report
<1>2. CASE what.how \in {"killed", "dumped"}
  <2>1. /\ what.how # "exited" /\ what.how # "stopped"
        /\ what.how \in {"killed", "dumped"}
    BY <1>2
  <2>2. C!proc_pushstatus(c, what) = C!Report(c, "terminated", what.rc)
    BY <2>1, Zenon DEF C!proc_pushstatus
  <2> QED
    BY <1>2, <2>2 DEF ChildAsItWas, C!Report
<1> QED
  BY <1>1, <1>2, ChildEndKinds

LEMMA ChildInfoTold == ASSUME NEW c, NEW what \in C!Ends
                       PROVE ChildAsItWas(C!pushinfo(c, what), what)
<1>1. CASE what.how = "exited"
  <2>1. C!pushinfo(c, what) = C!Report(c, "normal", what.rc)
    BY <1>1, Zenon DEF C!pushinfo
  <2> QED
    BY <1>1, <2>1 DEF ChildAsItWas, C!Report
<1>2. CASE what.how \in {"killed", "dumped"}
  <2>1. what.how # "exited" /\ what.how \in {"killed", "dumped"}
    BY <1>2
  <2>2. C!pushinfo(c, what) = C!Report(c, "terminated", what.rc)
    BY <2>1, Zenon DEF C!pushinfo
  <2> QED
    BY <1>2, <2>2 DEF ChildAsItWas, C!Report
<1> QED
  BY <1>1, <1>2, ChildEndKinds

LEMMA ChildInitHolds == C!Init => ChildIInv
BY DEF C!Init, ChildIInv, ChildTypes, ChildKnown

LEMMA ChildGrows == ASSUME C!ChildrenAssumption, ChildIInv, NEW c \in Child,
                           C!fork(c) \/ C!End(c) \/ C!StopChild(c) \/ C!ContinueChild(c)
                    PROVE  ChildIInv'
<1>1. ChildTypes'
  BY
  DEF C!ChildrenAssumption, ChildIInv, ChildTypes, C!fork, C!End, C!StopChild, C!ContinueChild,
      C!Becomes
<1>2. ASSUME NEW d \in Child PROVE ChildKnown(d)'
  <2>1. CASE d # c
    BY <2>1
    DEF ChildIInv, ChildTypes, ChildKnown, C!fork, C!End, C!StopChild, C!ContinueChild, C!Becomes
  <2>2. CASE d = c /\ C!fork(c)
    BY <2>2 DEF ChildIInv, ChildTypes, ChildKnown, C!fork
  <2>3. CASE d = c /\ C!End(c)
    BY <2>3 DEF ChildIInv, ChildTypes, ChildKnown, C!End, C!Becomes
  <2>4. CASE d = c /\ (C!StopChild(c) \/ C!ContinueChild(c))
    BY <2>4 DEF ChildIInv, ChildTypes, ChildKnown, C!StopChild, C!ContinueChild, C!Becomes
  <2> QED
    BY <2>1, <2>2, <2>3, <2>4
<1> QED
  BY <1>1, <1>2 DEF ChildIInv

LEMMA ChildTakeKeeps == ASSUME C!ChildrenAssumption, ChildIInv, NEW how, NEW set \in SUBSET Child,
                               \A c \in set : life[c] # "none", C!Take(how, set)
                        PROVE  ChildIInv'
<1> PICK c \in set :
      LET report == IF how = "waitid" THEN C!pushinfo(c, ends[c]) ELSE C!proc_pushstatus(c, ends[c])
      IN  /\ ends' = [ends EXCEPT ![c] = Nothing]
          /\ life' = [life EXCEPT ![c] = IF @ = "ended" THEN "none" ELSE @]
          /\ IF life[c] = "ended"
             THEN /\ heard' = [heard EXCEPT ![c] = report]
                  /\ times' = [times EXCEPT ![c] = @ + 1]
             ELSE UNCHANGED <<heard, times>>
          /\ UNCHANGED fate
  BY DEF C!Take
<1> DEFINE report == IF how = "waitid" THEN C!pushinfo(c, ends[c]) ELSE C!proc_pushstatus(c, ends[c])
<1>1. c \in Child /\ life[c] # "none" /\ ChildKnown(c)
  BY DEF ChildIInv
<1>2. ends[c] \in C!Ends => ChildAsItWas(report, ends[c])
  BY ChildStatusTold, ChildInfoTold
<1>3. /\ ends' = [ends EXCEPT ![c] = Nothing]
      /\ life' = [life EXCEPT ![c] = IF @ = "ended" THEN "none" ELSE @]
      /\ life[c] = "ended" => /\ heard' = [heard EXCEPT ![c] = report]
                              /\ times' = [times EXCEPT ![c] = @ + 1]
      /\ life[c] # "ended" => UNCHANGED <<heard, times>>
      /\ UNCHANGED fate
  OBVIOUS
<1> HIDE DEF report
<1>4. life[c] = "ended" => times[c] = 0
  BY <1>1 DEF ChildKnown
<1>5. ChildTypes'
  BY <1>1, <1>3, <1>4 DEF ChildIInv, ChildTypes
<1>6. ASSUME NEW d \in Child PROVE ChildKnown(d)'
  <2>1. CASE d # c
    BY <1>1, <1>3, <2>1 DEF ChildIInv, ChildTypes, ChildKnown
  <2>2. CASE d = c /\ life[c] = "ended"
    BY <1>1, <1>2, <1>3, <1>4, <2>2
    DEF C!ChildrenAssumption, ChildIInv, ChildTypes, ChildKnown, ChildAsItWas
  <2>3. CASE d = c /\ life[c] # "ended"
    BY <1>1, <1>3, <2>3 DEF ChildIInv, ChildTypes, ChildKnown
  <2> QED
    BY <2>1, <2>2, <2>3
<1> QED
  BY <1>5, <1>6 DEF ChildIInv

LEMMA ChildNothingNew == ASSUME ChildIInv, UNCHANGED C!childVars PROVE ChildIInv'
BY DEF ChildIInv, ChildTypes, ChildKnown, C!childVars

LEMMA ChildNextKeeps == ASSUME C!ChildrenAssumption, ChildIInv, [C!Next]_(C!vars) PROVE ChildIInv'
<1>1. ASSUME NEW how, NEW of \in {Child} \cup {{c} : c \in Child}, NEW nohang, C!Wait(how, of, nohang)
      PROVE  ChildIInv'
  <2> DEFINE newsy == {c \in {d \in of : life[d] # "none"} : ends[c] # Nothing}
  <2>1. newsy \in SUBSET Child /\ \A c \in newsy : life[c] # "none"
    OBVIOUS
  <2>2. CASE C!Take(how, newsy)
    BY <2>1, <2>2, ChildTakeKeeps
  <2>3. CASE UNCHANGED C!childVars
    BY <2>3, ChildNothingNew
  <2> QED
    BY <1>1, <2>2, <2>3 DEF C!Wait, C!Fails
<1>2. CASE C!forkFails
  BY <1>2, ChildNothingNew DEF C!forkFails, C!Fails
<1>3. CASE UNCHANGED C!vars
  BY <1>3, ChildNothingNew DEF C!vars
<1> QED
  BY <1>1, <1>2, <1>3, ChildGrows DEF C!Next

\* proc_pushstatus() and waitid() tell the program the end of each child once,
\* with its exit status or its signal, and never a program that was killed as one
\* that returned; stops that were reported before change nothing about it.
THEOREM TheEnd == ASSUME C!ChildrenAssumption PROVE C!Spec => []C!EndTold
<1>1. C!Init => ChildIInv
  BY ChildInitHolds
<1>2. ChildIInv /\ [C!Next]_(C!vars) => ChildIInv'
  BY ChildNextKeeps
<1>3. ChildIInv => C!EndTold
  BY DEF ChildIInv, ChildKnown, C!EndTold
<1> QED
  BY <1>1, <1>2, <1>3, PTL DEF C!Spec
-----------------------------------------------------------------------------
(* exec() writes envp within its bounds and gives back what it took,       *)
(* however large the environment is and by how much envp grows.            *)

ExecTypes == /\ pc \in {"out", "env", "end", "exec", "gone"}
             /\ given \in {"none", "table", "other"}
             /\ left \in 0 .. MaxEnv
             /\ alloc \in [blocks : SUBSET {"argv", "envp"}, strings : 0 .. MaxEnv + 1]
             /\ envc \in 0 .. MaxEnv + 1 /\ envm \in Nat /\ envtop \in -1 .. MaxEnv

ExecArgv(more, n) == [blocks |-> {"argv"} \cup more, strings |-> n]

\* What is allocated at each place of exec().  Each entry that was written is a
\* string, and there is room for all of them.
ExecAtWork ==
  /\ pc = "out" /\ ret = Nothing => alloc = E!Free /\ envc = 0 /\ envm = 0 /\ envtop = -1
  /\ pc = "env" => /\ given = "table" /\ envc + left <= MaxEnv /\ envc <= envm /\ envtop = envc - 1
                   /\ alloc = ExecArgv(IF envc > 0 THEN {"envp"} ELSE {}, envc)
  /\ pc = "end" => given = "other" /\ alloc = ExecArgv({}, 0)
  /\ pc = "exec" => \/ given = "none" /\ alloc = ExecArgv({}, 0)
                    \/ given = "table" /\ alloc = ExecArgv({"envp"}, envc)
  /\ pc # "out" => ret = Nothing

\* What is allocated when exec() is back.
ExecBack == pc = "out" => IF given = "none" /\ ret = "errno" THEN alloc = [blocks |-> {"argv"}, strings |-> 0]
                          ELSE alloc = E!Free \/ (odd = "number key" /\ ret = "raised")

ExecIInv == ExecTypes /\ ExecAtWork /\ E!EnvpFits /\ ExecBack

LEMMA ExecInitHolds == ASSUME E!ExecAssumption, E!Init PROVE ExecIInv
<1>1. ExecTypes
  BY DEF E!ExecAssumption, E!Init, ExecTypes, E!Free
<1>2. ExecAtWork
  BY DEF E!ExecAssumption, E!Init, ExecAtWork
<1>4. ExecBack
  BY DEF E!ExecAssumption, E!Init, ExecBack
<1>3. E!EnvpFits
  BY DEF E!Init, E!EnvpFits
<1> QED
  BY <1>1, <1>2, <1>3, <1>4 DEF ExecIInv

LEMMA ExecStartKeeps == ASSUME E!ExecAssumption, ExecIInv, E!Start PROVE ExecIInv'
<1>1. \/ /\ pc' = "out" /\ ret' = "ENOMEM" /\ UNCHANGED <<given, left, alloc>>
      \/ /\ pc' = "exec" /\ given' = "none" /\ left' = 0 /\ ret' = ret
         /\ alloc' = ExecArgv({}, 0)
      \/ /\ pc' = "env" /\ given' = "table" /\ left' \in 0 .. MaxEnv /\ ret' = ret
         /\ alloc' = ExecArgv({}, 0)
      \/ /\ pc' = "end" /\ given' = "other" /\ left' = 0 /\ ret' = ret
         /\ alloc' = ExecArgv({}, 0)
  <2>1. CASE E!Return("ENOMEM") /\ UNCHANGED <<given, left, alloc>>
    BY <2>1 DEF E!Return
  <2>2. CASE /\ given' \in {"none", "table", "other"}
             /\ left' \in IF given' = "table" THEN 0 .. MaxEnv ELSE {0}
             /\ alloc' = [blocks |-> {"argv"}, strings |-> 0]
             /\ pc' = CASE given' = "none"  -> "exec"
                        [] given' = "table" -> "env"
                        [] OTHER -> "end"
             /\ UNCHANGED ret
    <3>1. alloc' = ExecArgv({}, 0)
      BY <2>2 DEF E!Start, E!Free, ExecArgv
    <3>2. CASE given' = "none"
      <4>1. pc' = "exec"
        BY <2>2, <3>2, Zenon
      <4> QED
        BY <2>2, <3>1, <3>2, <4>1
    <3>3. CASE given' = "table"
      <4>1. given' # "none"
        BY <3>3
      <4>2. pc' = "env"
        BY <2>2, <3>3, <4>1, Zenon
      <4> QED
        BY <2>2, <3>1, <3>3, <4>2
    <3>4. CASE given' = "other"
      <4>1. given' # "none" /\ given' # "table"
        BY <3>4
      <4>2. pc' = "end"
        BY <2>2, <4>1, Zenon
      <4> QED
        BY <2>2, <3>1, <3>4, <4>2
    <3> QED
      BY <2>2, <3>2, <3>3, <3>4
  <2> QED
    BY <2>1, <2>2 DEF E!Start
<1>2. /\ pc = "out" /\ ret = Nothing /\ alloc = E!Free /\ envc = 0 /\ envm = 0 /\ envtop = -1
      /\ UNCHANGED <<envc, envm, envtop, over, odd>>
  BY DEF E!Start, ExecIInv, ExecAtWork
<1>3. ExecTypes'
  BY <1>1, <1>2 DEF E!ExecAssumption, ExecIInv, ExecTypes, ExecArgv
<1>4. ExecAtWork'
  BY <1>1, <1>2 DEF E!ExecAssumption, ExecIInv, ExecTypes, ExecAtWork, ExecArgv
<1>5. E!EnvpFits' /\ ExecBack'
  BY <1>1, <1>2 DEF ExecIInv, E!EnvpFits, ExecBack
<1> QED
  BY <1>3, <1>4, <1>5 DEF ExecIInv

LEMMA ExecRoomEnough ==
  ASSUME E!ExecAssumption, ExecIInv, pc = "env"
  PROVE  E!Room \in Nat /\ envc < E!Room
BY DEF E!ExecAssumption, ExecIInv, ExecTypes, ExecAtWork, E!Room

\* What an entry changes, whatever its kind.
ExecWritten == /\ pc = "env" /\ left > 0 /\ given = "table" /\ ret = Nothing
               /\ envc + left <= MaxEnv /\ envtop = envc - 1
               /\ envc' = envc + 1 /\ left' = left - 1 /\ envm' = E!Room /\ envtop' = envc
               /\ given' = given /\ alloc' = ExecArgv({"envp"}, envc + 1)
               /\ \/ pc' = pc /\ ret' = ret
                  \/ pc' = "out" /\ ret' = "raised" /\ odd' = "number key"
               /\ over' => odd' # "nothing"

LEMMA ExecEntryWrites == ASSUME ExecIInv, NEW kind \in {"string", "no string", "number key"}, E!Entry(kind)
                         PROVE  ExecWritten
<1>1. /\ pc = "env" /\ left > 0 /\ given = "table" /\ ret = Nothing
      /\ envc + left <= MaxEnv /\ envtop = envc - 1
      /\ alloc = ExecArgv(IF envc > 0 THEN {"envp"} ELSE {}, envc)
  BY DEF E!Entry, ExecIInv, ExecAtWork
<1>2. /\ envc' = envc + 1 /\ left' = left - 1 /\ envm' = E!Room /\ envtop' = envc
      /\ given' = given
      /\ \/ pc' = pc /\ ret' = ret
         \/ pc' = "out" /\ ret' = "raised" /\ odd' = "number key"
  BY DEF E!Entry, E!PutEntry, E!Return
<1>3. alloc' = ExecArgv({"envp"}, envc + 1)
  BY <1>1 DEF E!Entry, E!PutEntry, ExecArgv
<1>4. over' => odd' # "nothing"
  BY DEF ExecIInv, E!EnvpFits, E!Entry
<1> QED
  BY <1>1, <1>2, <1>3, <1>4 DEF ExecWritten

LEMMA ExecEntryKeeps == ASSUME E!ExecAssumption, ExecIInv, ExecWritten PROVE ExecIInv'
<1>1. E!Room \in Nat /\ envc < E!Room
  BY ExecRoomEnough DEF ExecWritten
<1>2. envc \in Nat /\ left \in Nat /\ MaxEnv \in Nat
  BY DEF E!ExecAssumption, ExecIInv, ExecTypes
<1>3. /\ left > 0 /\ envc + left <= MaxEnv /\ envc' = envc + 1 /\ left' = left - 1
      /\ envm' = E!Room /\ envtop' = envc
  BY DEF ExecWritten
<1>4. envc' > 0 /\ envc' \in 0 .. MaxEnv + 1 /\ left' \in 0 .. MaxEnv /\ envtop' \in -1 .. MaxEnv
  BY <1>2, <1>3
<1>5. envc' + left' <= MaxEnv /\ envc' <= envm' /\ envtop' = envc' - 1 /\ envtop' < envm'
  BY <1>1, <1>2, <1>3
<1>6. alloc' = ExecArgv({"envp"}, envc')
  BY DEF ExecWritten
<1>7. ExecTypes'
  <2>1. alloc' \in [blocks : SUBSET {"argv", "envp"}, strings : 0 .. MaxEnv + 1]
    BY <1>4, <1>6 DEF ExecArgv
  <2> QED
    BY <1>1, <1>3, <1>4, <2>1 DEF ExecIInv, ExecTypes, ExecWritten
<1>8. ExecAtWork'
  <2>1. alloc' = ExecArgv(IF envc' > 0 THEN {"envp"} ELSE {}, envc')
    BY <1>4, <1>6
  <2> QED
    BY <1>5, <2>1 DEF E!ExecAssumption, ExecAtWork, ExecWritten
<1>9. E!EnvpFits' /\ ExecBack'
  BY <1>5 DEF E!EnvpFits, ExecBack, ExecWritten
<1> QED
  BY <1>7, <1>8, <1>9 DEF ExecIInv

LEMMA ExecLastKeeps == ASSUME E!ExecAssumption, ExecIInv, E!LastEntry PROVE ExecIInv'
<1> USE ExecRoomEnough
<1>1. /\ pc = "env" /\ given = "table" /\ ret = Nothing
      /\ envc <= MaxEnv /\ alloc = ExecArgv(IF envc > 0 THEN {"envp"} ELSE {}, envc)
  BY DEF E!ExecAssumption, E!LastEntry, ExecIInv, ExecAtWork, ExecTypes
<1>2. /\ envc' = envc + 1 /\ envm' = E!Room /\ envtop' = envc /\ pc' = "exec"
      /\ UNCHANGED <<given, left, over, odd, ret>>
  BY DEF E!LastEntry, E!PutEntry
<1>3. alloc' = ExecArgv({"envp"}, envc + 1)
  BY <1>1 DEF E!LastEntry, E!PutEntry, ExecArgv
<1>4. ExecTypes'
  BY <1>1, <1>2, <1>3 DEF E!ExecAssumption, ExecIInv, ExecTypes, ExecArgv
<1>5. ExecAtWork' /\ E!EnvpFits' /\ ExecBack'
  BY <1>1, <1>2, <1>3 DEF E!ExecAssumption, ExecIInv, ExecTypes, ExecAtWork, E!EnvpFits, ExecBack
<1> QED
  BY <1>4, <1>5 DEF ExecIInv

LEMMA ExecFailureKeeps == ASSUME E!ExecAssumption, ExecIInv, E!NoMemory \/ E!NoTable PROVE ExecIInv'
<1>1. CASE E!NoMemory
  <2>1. pc = "env" /\ given = "table" /\ alloc = ExecArgv(IF envc > 0 THEN {"envp"} ELSE {}, envc) /\ envc \in Nat
    BY <1>1 DEF E!NoMemory, ExecIInv, ExecAtWork, ExecTypes
  <2>2. alloc' = E!Free
    <3>1. alloc.strings = envc
      BY <2>1 DEF ExecArgv
    <3>2. alloc' = [blocks |-> {}, strings |-> envc - envc]
      BY <1>1, <3>1 DEF E!NoMemory, E!execfree
    <3> QED
      BY <2>1, <3>2 DEF E!Free
  <2>3. envm' \in Nat /\ envm' >= envm
    BY <1>1 DEF E!NoMemory, E!Room, E!ExecAssumption, ExecIInv, ExecTypes
  <2> QED
    BY <1>1, <2>1, <2>2, <2>3
   
    DEF E!NoMemory, E!Return, E!ExecAssumption, ExecIInv, ExecTypes, ExecAtWork, E!EnvpFits,
        ExecBack, E!Free
<1>2. CASE E!NoTable
  BY <1>2
  DEF E!NoTable, E!Return, E!ExecAssumption, ExecIInv, ExecTypes, ExecAtWork, E!EnvpFits, ExecBack,
      E!Free
<1> QED
  BY <1>1, <1>2

LEMMA ExecExecveKeeps == ASSUME E!ExecAssumption, ExecIInv, E!Execve PROVE ExecIInv'
<1>1. CASE pc' = "gone" /\ UNCHANGED <<alloc, ret>>
  BY <1>1 DEF E!Execve, ExecIInv, ExecTypes, ExecAtWork, E!EnvpFits, ExecBack
<1>2. CASE /\ IF given = "none" THEN UNCHANGED alloc ELSE E!execfree
           /\ E!Return("errno")
  <2>1. IF given = "none" THEN alloc' = [blocks |-> {"argv"}, strings |-> 0] ELSE alloc' = E!Free
    BY <1>2 DEF E!Execve, ExecIInv, ExecTypes, ExecAtWork, ExecArgv, E!Free, E!execfree
  <2>2. alloc' \in [blocks : SUBSET {"argv", "envp"}, strings : 0 .. MaxEnv + 1]
    BY <2>1 DEF E!ExecAssumption, E!Free
  <2> QED
    BY <1>2, <2>1, <2>2
    DEF E!Execve, E!Return, E!ExecAssumption, ExecIInv, ExecTypes, ExecAtWork, E!EnvpFits, ExecBack
<1> QED
  BY <1>1, <1>2 DEF E!Execve

LEMMA ExecNextKeeps == ASSUME E!ExecAssumption, ExecIInv, [E!Next]_(E!vars) PROVE ExecIInv'
<1>1. CASE UNCHANGED E!vars
  BY <1>1 DEF E!vars, ExecIInv, ExecTypes, ExecAtWork, E!EnvpFits, ExecBack
<1> QED
  BY <1>1, ExecStartKeeps, ExecEntryWrites, ExecEntryKeeps, ExecLastKeeps, ExecFailureKeeps, ExecExecveKeeps
  DEF E!Next

LEMMA ExecHolds == ASSUME E!ExecAssumption PROVE E!Spec => []ExecIInv
<1>1. E!Init => ExecIInv
  BY ExecInitHolds
<1>2. ExecIInv /\ [E!Next]_(E!vars) => ExecIInv'
  BY ExecNextKeeps
<1> QED
  BY <1>1, <1>2, PTL DEF E!Spec

\* proc_growenvp() makes room before each pointer is written, the NULL at the end
\* of envp too; a string is longer than its block only when the table has
\* something that is no string.
THEOREM RoomForAll == ASSUME E!ExecAssumption PROVE E!Spec => []E!EnvpFits
<1>1. ExecIInv => E!EnvpFits
  BY DEF ExecIInv
<1> QED
  BY <1>1, ExecHolds, PTL

LEMMA ExecGives == ExecIInv => E!ExecClean
<1> SUFFICES ASSUME ExecIInv, pc = "out" PROVE E!ExecClean
  BY DEF E!ExecClean
<1>1. CASE given = "none" /\ ret = "errno"
  <2>1. alloc = [blocks |-> {"argv"}, strings |-> 0] /\ ~ (odd = "number key" /\ ret = "raised")
    BY <1>1 DEF ExecIInv, ExecBack
  <2> QED
    BY <1>1, <2>1, Zenon DEF E!ExecClean
<1>2. CASE ~ (given = "none" /\ ret = "errno") /\ odd = "number key" /\ ret = "raised"
  BY <1>2, Zenon DEF E!ExecClean
<1>3. CASE ~ (given = "none" /\ ret = "errno") /\ ~ (odd = "number key" /\ ret = "raised")
  <2>1. alloc = E!Free
    BY <1>3 DEF ExecIInv, ExecBack
  <2> QED
    BY <1>3, <2>1, Zenon DEF E!ExecClean
<1> QED
  BY <1>1, <1>2, <1>3

\* When exec() comes back argv, envp and its strings are free, wherever it
\* failed, but for what src/process.c:318 keeps and a number that is a key.
THEOREM GivenBack == ASSUME E!ExecAssumption PROVE E!Spec => []E!ExecClean
<1> QED
  BY ExecGives, ExecHolds, PTL
-----------------------------------------------------------------------------
(* libtls finds the functions of its connection, and every struct tls has  *)
(* one owner, for any number of contexts, configurations and addresses.    *)
(* A configuration has as many users as src/tls.c counts.                   *)

TlsTableType == [_ctx : Ctx \cup {Nothing}, calls : TlsCalls \cup {Nothing}]

TlsTypes == /\ ctx \in [Ctx -> Ptr \cup {O!NULL, O!Absent}]
            /\ uservalue \in [Ctx -> TlsTableType]
            /\ \A c \in Ctx : uservalue[c]._ctx \in {c, Nothing}
            /\ registry \in [Ptr -> Ctx \cup {Nothing}]
            /\ tls \in [Ptr -> [live : BOOLEAN, back : TlsTableType, conf : Cptr \cup {O!NULL}]]
            /\ conf \in [Conf -> Cptr \cup {O!NULL, O!Absent}]

\* A struct tls that is in use belongs to one userdata.
TlsOwners == /\ \A p \in Ptr : tls[p].live <=> \E c \in Ctx : ctx[c] = p
             /\ \A c, d \in Ctx : O!Live(c) /\ ctx[c] = ctx[d] => c = d

TlsIInv == TlsTypes /\ TlsOwners /\ O!RightCallback

LEMMA TlsNullNoAddress == ASSUME O!TlsObjectsAssumption PROVE O!NULL \notin Ptr /\ O!Absent \notin Ptr
BY DEF O!TlsObjectsAssumption, O!NULL, O!Absent

LEMMA TlsInitHolds == ASSUME O!TlsObjectsAssumption, O!Init PROVE TlsIInv
<1> USE TlsNullNoAddress DEF O!Init
<1>1. TlsTypes
  BY DEF TlsTypes, TlsTableType, O!NoTable, O!Table, O!Dead
<1>2. TlsOwners
  BY DEF TlsOwners, O!Live, O!Dead
<1>3. O!RightCallback
  BY DEF O!RightCallback, O!Dead, O!NoTable, O!Table
<1> QED
  BY <1>1, <1>2, <1>3 DEF TlsIInv

\* A struct that is not in use has no entry and no functions.
LEMMA TlsUnusedFacts == ASSUME TlsIInv, NEW p \in O!Unused
                        PROVE  /\ p \in Ptr /\ ~ tls[p].live /\ registry[p] = Nothing
                               /\ tls[p].back = O!NoTable /\ \A c \in Ctx : ctx[c] # p
BY DEF TlsIInv, TlsTypes, TlsOwners, O!RightCallback, O!Unused

\* A new struct for a userdata that had none, with an entry or without.
LEMMA TlsNewOne == ASSUME O!TlsObjectsAssumption, TlsIInv, NEW c \in Ctx, ctx[c] = O!Absent,
                          NEW p \in O!Unused, NEW k \in Cptr \cup {O!NULL}, NEW table, NEW entry,
                          tls' = [tls EXCEPT ![p] = [live |-> TRUE, back |-> table, conf |-> k]],
                          ctx' = [ctx EXCEPT ![c] = p],
                          uservalue' = [uservalue EXCEPT ![c] = table],
                          registry' = [registry EXCEPT ![p] = entry],
                          \/ entry = Nothing /\ table = O!NoTable
                          \/ entry = c /\ \E calls \in TlsCalls : table = O!Table(c, calls),
                          UNCHANGED conf
                   PROVE  TlsIInv'
<1> USE TlsNullNoAddress
<1>1. p \in Ptr /\ ~ tls[p].live /\ registry[p] = Nothing /\ \A d \in Ctx : ctx[d] # p
  BY TlsUnusedFacts
<1>2. table \in TlsTableType /\ table._ctx \in {c, Nothing}
  BY DEF TlsTableType, O!NoTable, O!Table
<1>3. TlsTypes'
  BY <1>1, <1>2 DEF TlsIInv, TlsTypes
<1>4. TlsOwners'
  BY <1>1 DEF TlsIInv, TlsTypes, TlsOwners, O!Live
<1>5. O!RightCallback'
  <2> SUFFICES ASSUME NEW q \in Ptr
               PROVE  IF registry'[q] = Nothing THEN tls'[q].back = O!NoTable
                      ELSE /\ tls'[q].live /\ ctx'[registry'[q]] = q
                           /\ uservalue'[registry'[q]] = tls'[q].back
    BY DEF O!RightCallback
  <2>1. CASE q = p
    BY <1>1, <2>1 DEF TlsIInv, TlsTypes, O!TlsObjectsAssumption
  <2>2. CASE q # p
    <3>1. registry'[q] = registry[q] /\ tls'[q] = tls[q]
      BY <1>1, <2>2 DEF TlsIInv, TlsTypes
    <3>2. registry[q] # Nothing => registry[q] \in Ctx /\ registry[q] # c
      BY DEF TlsIInv, TlsTypes, O!RightCallback
    <3> QED
      BY <3>1, <3>2 DEF TlsIInv, TlsTypes, O!RightCallback
  <2> QED
    BY <2>1, <2>2
<1> QED
  BY <1>3, <1>4, <1>5 DEF TlsIInv

\* The struct of a userdata, while it is in use, is nobody else's.
LEMMA TlsOwnStruct == ASSUME O!TlsObjectsAssumption, TlsIInv, NEW c \in Ctx, O!Live(c)
                      PROVE  /\ ctx[c] \in Ptr /\ tls[ctx[c]].live
                             /\ \A d \in Ctx : ctx[d] = ctx[c] => d = c
                             /\ registry[ctx[c]] \in {c, Nothing}
                             /\ \A q \in Ptr : registry[q] = c => q = ctx[c]
<1>1. ctx[c] \in Ptr /\ tls[ctx[c]].live /\ \A d \in Ctx : ctx[d] = ctx[c] => d = c
  BY DEF TlsIInv, TlsOwners, O!Live
<1>2. registry[ctx[c]] \in {c, Nothing}
  BY <1>1 DEF TlsIInv, TlsTypes, O!RightCallback
<1>3. \A q \in Ptr : registry[q] = c => q = ctx[c]
  BY DEF TlsIInv, TlsTypes, O!RightCallback, O!TlsObjectsAssumption
<1> QED
  BY <1>1, <1>2, <1>3

\* What the registry has of a struct other than one that changes stays right.
LEMMA TlsOthersRight == ASSUME O!TlsObjectsAssumption, TlsIInv, NEW c \in Ctx, NEW q \in Ptr, registry[q] # c,
                               registry'[q] = registry[q], tls'[q] = tls[q],
                               \A d \in Ctx \ {c} : ctx'[d] = ctx[d] /\ uservalue'[d] = uservalue[d]
                        PROVE  IF registry'[q] = Nothing THEN tls'[q].back = O!NoTable
                               ELSE /\ tls'[q].live /\ ctx'[registry'[q]] = q
                                    /\ uservalue'[registry'[q]] = tls'[q].back
BY DEF TlsIInv, TlsTypes, O!RightCallback

LEMMA TlsConnectKeeps == ASSUME O!TlsObjectsAssumption, TlsIInv, NEW c \in Ctx, NEW calls \in TlsCalls, O!ConnectCbs(c, calls)
                         PROVE  TlsIInv'
<1> DEFINE p == ctx[c]
<1>1. /\ p \in Ptr /\ tls[p].live
      /\ \A q \in Ptr : registry[q] = c => q = p
  BY TlsOwnStruct DEF O!ConnectCbs, O!Usable
<1>2. O!Table(c, calls) \in TlsTableType /\ O!Table(c, calls)._ctx = c
  BY DEF O!Table, TlsTableType
<1>3. TlsTypes'
  <2>1. tls' \in [Ptr -> [live : BOOLEAN, back : TlsTableType, conf : Cptr \cup {O!NULL}]]
    BY <1>1, <1>2 DEF TlsIInv, TlsTypes, O!ConnectCbs
  <2>2. uservalue' \in [Ctx -> TlsTableType] /\ \A d \in Ctx : uservalue'[d]._ctx \in {d, Nothing}
    BY <1>2 DEF TlsIInv, TlsTypes, O!ConnectCbs
  <2>3. registry' \in [Ptr -> Ctx \cup {Nothing}] /\ UNCHANGED <<ctx, conf>>
    BY <1>1 DEF TlsIInv, TlsTypes, O!ConnectCbs
  <2> QED
    BY <2>1, <2>2, <2>3 DEF TlsIInv, TlsTypes
<1>4. TlsOwners'
  BY <1>1 DEF TlsIInv, TlsTypes, TlsOwners, O!ConnectCbs, O!Live
<1>5. O!RightCallback'
  <2> SUFFICES ASSUME NEW q \in Ptr
               PROVE  IF registry'[q] = Nothing THEN tls'[q].back = O!NoTable
                      ELSE /\ tls'[q].live /\ ctx'[registry'[q]] = q
                           /\ uservalue'[registry'[q]] = tls'[q].back
    BY DEF O!RightCallback
  <2>1. CASE q = p
    BY <1>1, <2>1 DEF TlsIInv, TlsTypes, O!ConnectCbs, O!TlsObjectsAssumption
  <2>2. CASE q # p
    BY <1>1, <2>2, TlsOthersRight DEF TlsIInv, TlsTypes, O!ConnectCbs
  <2> QED
    BY <2>1, <2>2
<1> QED
  BY <1>3, <1>4, <1>5 DEF TlsIInv

\* configure() changes nothing that the callbacks need.
LEMMA TlsConfigureKeeps == ASSUME O!TlsObjectsAssumption, TlsIInv, NEW c \in Ctx, NEW k \in Conf, O!Configure(c, k)
                           PROVE  TlsIInv'
<1>1. ctx[c] \in Ptr /\ conf[k] \in Cptr \cup {O!NULL}
  BY DEF O!Configure, O!Usable, O!Live, TlsIInv, TlsTypes
<1>2. \A q \in Ptr : tls'[q].live = tls[q].live /\ tls'[q].back = tls[q].back
  BY <1>1 DEF O!Configure, TlsIInv, TlsTypes
<1>3. TlsTypes'
  BY <1>1 DEF TlsIInv, TlsTypes, O!Configure
<1>4. TlsOwners' /\ O!RightCallback'
  BY <1>2 DEF TlsIInv, TlsOwners, O!RightCallback, O!Configure, O!Live
<1> QED
  BY <1>3, <1>4 DEF TlsIInv

\* close(), the collector, and reset(): an entry goes with its functions.
LEMMA TlsReleaseKeeps == ASSUME O!TlsObjectsAssumption, TlsIInv, NEW c \in Ctx, NEW after \in {O!NULL, O!Absent},
                                O!Release(c, after), UNCHANGED conf,
                                \/ UNCHANGED uservalue
                                \/ uservalue' = [uservalue EXCEPT ![c] = O!NoTable]
                         PROVE  TlsIInv'
<1> USE TlsNullNoAddress
<1>0. O!NoTable \in TlsTableType /\ O!NoTable._ctx = Nothing /\ O!Dead = [live |-> FALSE, back |-> O!NoTable, conf |-> O!NULL]
  BY DEF O!NoTable, O!Table, TlsTableType, O!Dead
<1>1. TlsTypes'
  <2>1. /\ ctx' = [ctx EXCEPT ![c] = after]
        /\ ctx' \in [Ctx -> Ptr \cup {O!NULL, O!Absent}]
    BY DEF TlsIInv, TlsTypes, O!Release
  <2>2. /\ uservalue' \in [Ctx -> TlsTableType]
        /\ \A d \in Ctx : uservalue'[d]._ctx \in {d, Nothing}
    BY <1>0 DEF TlsIInv, TlsTypes
  <2>3. registry' \in [Ptr -> Ctx \cup {Nothing}]
    BY DEF TlsIInv, TlsTypes, O!Release
  <2>4. O!Dead \in [live : BOOLEAN, back : TlsTableType, conf : Cptr \cup {O!NULL}]
    BY <1>0
  <2>5. tls' \in [Ptr -> [live : BOOLEAN, back : TlsTableType, conf : Cptr \cup {O!NULL}]]
    BY <2>4 DEF TlsIInv, TlsTypes, O!Release
  <2> QED
    BY <2>1, <2>2, <2>3, <2>5 DEF TlsIInv, TlsTypes
<1>2. CASE O!Live(c)
  <2>1. /\ ctx[c] \in Ptr
        /\ \A d \in Ctx : ctx[d] = ctx[c] => d = c
        /\ \A q \in Ptr : registry[q] = c => q = ctx[c]
    BY <1>2, TlsOwnStruct
  <2>2. /\ registry' = [registry EXCEPT ![ctx[c]] = Nothing]
        /\ tls' = [tls EXCEPT ![ctx[c]] = O!Dead]
        /\ ctx' = [ctx EXCEPT ![c] = after]
    BY <1>2 DEF O!Release
  <2>3. TlsOwners'
    BY <1>0, <2>1, <2>2 DEF TlsIInv, TlsTypes, TlsOwners, O!Live
  <2>4. O!RightCallback'
    <3> SUFFICES ASSUME NEW q \in Ptr
                 PROVE  IF registry'[q] = Nothing THEN tls'[q].back = O!NoTable
                        ELSE /\ tls'[q].live /\ ctx'[registry'[q]] = q
                             /\ uservalue'[registry'[q]] = tls'[q].back
      BY DEF O!RightCallback
    <3>1. CASE q = ctx[c]
      BY <1>0, <2>2, <3>1 DEF TlsIInv, TlsTypes
    <3>2. CASE q # ctx[c]
      BY <2>1, <2>2, <3>2, TlsOthersRight DEF TlsIInv, TlsTypes
    <3> QED
      BY <3>1, <3>2
  <2> QED
    BY <1>1, <2>3, <2>4 DEF TlsIInv
<1>3. CASE ~ O!Live(c)
  <2>1. UNCHANGED <<registry, tls>> /\ ctx' = [ctx EXCEPT ![c] = after] /\ ctx[c] \notin Ptr
    BY <1>3 DEF O!Release, O!Live
  <2>2. TlsOwners'
    BY <2>1 DEF TlsIInv, TlsTypes, TlsOwners, O!Live
  <2>3. \A q \in Ptr : registry[q] # c
    BY <2>1 DEF TlsIInv, TlsTypes, O!RightCallback, O!TlsObjectsAssumption
  <2>4. O!RightCallback'
    BY <2>1, <2>3, TlsOthersRight DEF TlsIInv, TlsTypes, O!RightCallback
  <2> QED
    BY <1>1, <2>2, <2>4 DEF TlsIInv
<1> QED
  BY <1>2, <1>3

LEMMA TlsResetKeeps == ASSUME O!TlsObjectsAssumption, TlsIInv, NEW c \in Ctx, O!Reset(c)
                       PROVE  TlsIInv'
<1> USE TlsNullNoAddress
<1>0. O!NoTable \in TlsTableType /\ O!NoTable._ctx = Nothing
  BY DEF O!NoTable, O!Table, TlsTableType
<1>1. /\ ctx[c] \in Ptr /\ tls[ctx[c]].live
      /\ \A q \in Ptr : registry[q] = c => q = ctx[c]
  BY TlsOwnStruct DEF O!Reset, O!Usable
<1>2. TlsTypes'
  BY <1>0, <1>1 DEF TlsIInv, TlsTypes, O!Reset
<1>3. TlsOwners'
  BY <1>0, <1>1 DEF TlsIInv, TlsTypes, TlsOwners, O!Live, O!Reset
<1>4. O!RightCallback'
  <2> SUFFICES ASSUME NEW q \in Ptr
               PROVE  IF registry'[q] = Nothing THEN tls'[q].back = O!NoTable
                      ELSE /\ tls'[q].live /\ ctx'[registry'[q]] = q
                           /\ uservalue'[registry'[q]] = tls'[q].back
    BY DEF O!RightCallback
  <2>1. CASE q = ctx[c]
    BY <1>0, <2>1 DEF TlsIInv, TlsTypes, O!Reset
  <2>2. CASE q # ctx[c]
    BY <1>1, <2>2, TlsOthersRight DEF TlsIInv, TlsTypes, O!Reset
  <2> QED
    BY <2>1, <2>2
<1> QED
  BY <1>2, <1>3, <1>4 DEF TlsIInv

\* Calls that change none of it.
LEMMA TlsQuietKeeps == ASSUME TlsIInv, UNCHANGED <<ctx, uservalue, registry, tls>>,
                              conf' \in [Conf -> Cptr \cup {O!NULL, O!Absent}]
                       PROVE  TlsIInv'
BY DEF TlsIInv, TlsTypes, TlsOwners, O!RightCallback, O!Live

LEMMA TlsNextKeeps == ASSUME O!TlsObjectsAssumption, TlsIInv, [O!Next]_(O!vars) PROVE TlsIInv'
<1> USE TlsNullNoAddress
<1>1. ASSUME NEW c \in Ctx, O!Client(c) PROVE TlsIInv'
  <2> PICK p \in O!Unused : O!NewStruct(c, p, O!NULL)
    BY <1>1 DEF O!Client
  <2>1. registry' = [registry EXCEPT ![p] = Nothing]
    BY <1>1, TlsUnusedFacts DEF O!Client, TlsIInv, TlsTypes
  <2> QED
    BY <1>1, <2>1, TlsNewOne DEF O!Client, O!NewStruct
<1>2. ASSUME NEW s \in Ctx, NEW c \in Ctx, O!AcceptFds(s, c) PROVE TlsIInv'
  <2> DEFINE k == tls[ctx[s]].conf
  <2> PICK p \in O!Unused : O!NewStruct(c, p, k)
    BY <1>2 DEF O!AcceptFds
  <2>1. registry' = [registry EXCEPT ![p] = Nothing]
    BY <1>2, TlsUnusedFacts DEF O!AcceptFds, TlsIInv, TlsTypes
  <2>2. k \in Cptr \cup {O!NULL}
    BY <1>2 DEF O!AcceptFds, O!Usable, O!Live, TlsIInv, TlsTypes
  <2> QED
    BY <1>2, <2>1, <2>2, TlsNewOne DEF O!AcceptFds, O!NewStruct
<1>3. ASSUME NEW s \in Ctx, NEW c \in Ctx, NEW calls \in TlsCalls, O!AcceptCbs(s, c, calls) PROVE TlsIInv'
  <2> DEFINE k == tls[ctx[s]].conf
  <2> PICK p \in O!Unused : /\ tls' = [tls EXCEPT ![p] = [live |-> TRUE, back |-> O!Table(c, calls), conf |-> k]]
                            /\ ctx' = [ctx EXCEPT ![c] = p]
                            /\ registry' = [registry EXCEPT ![p] = c]
    BY <1>3 DEF O!AcceptCbs
  <2>1. k \in Cptr \cup {O!NULL}
    BY <1>3 DEF O!AcceptCbs, O!Usable, O!Live, TlsIInv, TlsTypes
  <2> QED
    BY <1>3, <2>1, TlsNewOne DEF O!AcceptCbs
<1>4. ASSUME NEW c \in Ctx, O!Close(c) \/ O!Collect(c) PROVE TlsIInv'
  BY <1>4, TlsReleaseKeeps DEF O!Close, O!Collect
<1>5. ASSUME UNCHANGED O!ctxVars, \/ UNCHANGED conf
                                  \/ \E k \in Conf : O!Config(k) \/ O!ConfFree(k, O!NULL) \/ O!ConfFree(k, O!Absent)
      PROVE  TlsIInv'
  <2>1. conf' \in [Conf -> Cptr \cup {O!NULL, O!Absent}]
    BY <1>5 DEF TlsIInv, TlsTypes, O!Config, O!ConfFree, O!UnusedConf
  <2> QED
    BY <1>5, <2>1, TlsQuietKeeps DEF O!ctxVars
<1>6. ASSUME NEW c \in Ctx, O!Drop(c) \/ O!StrayCtx(c) PROVE TlsIInv'
  BY <1>6, TlsQuietKeeps DEF O!Drop, O!StrayCtx, O!ctxVars, TlsIInv, TlsTypes
<1>7. ASSUME NEW k \in Conf, O!Config(k) \/ O!ConfFree(k, O!NULL) \/ O!ConfFree(k, O!Absent) \/ O!StrayConf(k) PROVE TlsIInv'
  BY <1>5, <1>7 DEF O!Config, O!ConfFree, O!StrayConf
<1>8. CASE UNCHANGED O!vars
  BY <1>5, <1>8 DEF O!vars
<1> QED
  BY <1>1, <1>2, <1>3, <1>4, <1>6, <1>7, <1>8, TlsResetKeeps, TlsConnectKeeps, TlsConfigureKeeps
  DEF O!Next

\* The functions of a connection are found as long as libtls may call them.
LEMMA TlsKept == ASSUME O!TlsObjectsAssumption, TlsIInv PROVE O!StructsOwned
<1>1. ASSUME NEW c \in Ctx, O!Pinned(c) PROVE O!Live(c) /\ tls[ctx[c]].back # O!NoTable
  <2> PICK p \in Ptr : registry[p] # Nothing /\ uservalue[registry[p]]._ctx = c
    BY <1>1 DEF O!Pinned
  <2>1. registry[p] = c
    BY DEF TlsIInv, TlsTypes, O!TlsObjectsAssumption
  <2>2. ctx[c] = p /\ tls[p].back = uservalue[c]
    BY <2>1 DEF TlsIInv, O!RightCallback, O!TlsObjectsAssumption
  <2>3. O!NoTable._ctx = Nothing /\ uservalue[c]._ctx = c
    BY <2>1 DEF O!NoTable, O!Table
  <2> QED
    BY <2>2, <2>3 DEF O!Live, O!TlsObjectsAssumption
<1> QED
  BY <1>1 DEF TlsIInv, TlsOwners, O!StructsOwned

-----------------------------------------------------------------------------
(* The users of a configuration are counted.                                *)

LEMMA TlsCount == ASSUME NEW S PROVE O!Cardinality(S) = Cardinality(S) /\ (O!IsFiniteSet(S) <=> IsFiniteSet(S))
BY DEF Cardinality, O!Cardinality, IsFiniteSet, O!IsFiniteSet

\* Two sets that differ in one element at most.
LEMMA TlsCountOne ==
  ASSUME NEW S, IsFiniteSet(S), NEW old \in SUBSET S, NEW now \in SUBSET S, NEW x \in S, old \ {x} = now \ {x}
  PROVE  /\ Cardinality(old) \in Nat /\ Cardinality(now) \in Nat
         /\ Cardinality(now) = Cardinality(old) + (IF x \in now THEN 1 ELSE 0) - (IF x \in old THEN 1 ELSE 0)
<1>1. IsFiniteSet(old) /\ IsFiniteSet(now)
  BY FS_Subset
<1>2. /\ Cardinality(old) \in Nat /\ Cardinality(now) \in Nat
  BY <1>1, FS_CardinalityType
<1>3. ASSUME NEW set, IsFiniteSet(set), x \in set
      PROVE  Cardinality(set \ {x}) = Cardinality(set) - 1
  BY <1>3, FS_RemoveElement
<1>4. x \notin old => Cardinality(old \ {x}) = Cardinality(old)
  <2>1. x \notin old => old \ {x} = old
    OBVIOUS
  <2> QED
    BY <2>1
<1>5. x \notin now => Cardinality(now \ {x}) = Cardinality(now)
  <2>1. x \notin now => now \ {x} = now
    OBVIOUS
  <2> QED
    BY <2>1
<1>6. Cardinality(old \ {x}) = Cardinality(old) - (IF x \in old THEN 1 ELSE 0)
  <2>1. CASE x \in old
    BY <1>1, <1>3, <2>1
  <2>2. CASE x \notin old
    BY <1>2, <1>4, <2>2
  <2> QED
    BY <2>1, <2>2
<1>7. Cardinality(now \ {x}) = Cardinality(now) - (IF x \in now THEN 1 ELSE 0)
  <2>1. CASE x \in now
    BY <1>1, <1>3, <2>1
  <2>2. CASE x \notin now
    BY <1>2, <1>5, <2>2
  <2> QED
    BY <2>1, <2>2
<1>8. Cardinality(old \ {x}) = Cardinality(now \ {x})
  OBVIOUS
<1> QED
  BY <1>2, <1>6, <1>7, <1>8

\* old struct that is not in use has no configuration.
TlsConfs == /\ O!ConfsCounted
            /\ \A p \in Ptr : ~ tls[p].live => tls[p].conf = O!NULL

TlsConfUsers(q) == {k \in Conf : conf[k] = q}
TlsPtrUsers(q) == {p \in Ptr : tls[p].conf = q}

LEMMA TlsNoConf == O!NULL \notin Cptr /\ O!Absent \notin Cptr
BY Assumptions DEF O!TlsObjectsAssumption, O!NULL, O!Absent

LEMMA TlsSizes == ASSUME NEW q \in Cptr
                  PROVE  /\ Cardinality(TlsConfUsers(q)) \in Nat /\ Cardinality(TlsPtrUsers(q)) \in Nat
                         /\ Cardinality(TlsConfUsers(q))' \in Nat /\ Cardinality(TlsPtrUsers(q))' \in Nat
<1>1. IsFiniteSet(Conf) /\ IsFiniteSet(Ptr)
  BY Assumptions, TlsCount DEF O!TlsObjectsAssumption
<1>2. /\ TlsConfUsers(q) \subseteq Conf /\ TlsPtrUsers(q) \subseteq Ptr
      /\ TlsConfUsers(q)' \subseteq Conf /\ TlsPtrUsers(q)' \subseteq Ptr
  BY DEF TlsConfUsers, TlsPtrUsers
<1> QED
  BY <1>1, <1>2, FS_Subset, FS_CardinalityType

LEMMA TlsCounts == O!ConfsCounted <=> \A q \in Cptr : tlsrefs[q] = Cardinality(TlsConfUsers(q)) + Cardinality(TlsPtrUsers(q))
BY TlsCount DEF O!ConfsCounted, TlsConfUsers, TlsPtrUsers

\* One struct gets another configuration.
LEMMA TlsPtrMoves ==
  ASSUME O!ConfsCounted, NEW p \in Ptr, UNCHANGED conf,
         \A i \in Ptr \ {p} : tls'[i].conf = tls[i].conf,
         \A q \in Cptr : tlsrefs'[q] = tlsrefs[q] + (IF q = tls'[p].conf THEN 1 ELSE 0) - (IF q = tls[p].conf THEN 1 ELSE 0)
  PROVE  O!ConfsCounted'
<1>1. IsFiniteSet(Ptr)
  BY Assumptions, TlsCount DEF O!TlsObjectsAssumption
<1>2. ASSUME NEW q \in Cptr
      PROVE  tlsrefs'[q] = Cardinality(TlsConfUsers(q))' + Cardinality(TlsPtrUsers(q))'
  <2> DEFINE old == TlsPtrUsers(q)
             now == {i \in Ptr : tls'[i].conf = q}
  <2>1. old \in SUBSET Ptr /\ now \in SUBSET Ptr /\ old \ {p} = now \ {p}
    BY DEF TlsPtrUsers
  <2>2. /\ Cardinality(old) \in Nat /\ Cardinality(now) \in Nat
        /\ Cardinality(now) = Cardinality(old) + (IF p \in now THEN 1 ELSE 0) - (IF p \in old THEN 1 ELSE 0)
    <3> HIDE DEF old, now
    <3> QED
      BY <1>1, <2>1, TlsCountOne
  <2>3. (p \in now <=> q = tls'[p].conf) /\ (p \in old <=> q = tls[p].conf)
    BY DEF TlsPtrUsers
  <2>4. TlsPtrUsers(q)' = now /\ TlsConfUsers(q)' = TlsConfUsers(q)
    BY DEF TlsPtrUsers, TlsConfUsers
  <2>5. tlsrefs[q] = Cardinality(TlsConfUsers(q)) + Cardinality(old) /\ Cardinality(TlsConfUsers(q)) \in Nat
    BY TlsCounts, TlsSizes
  <2>6. tlsrefs'[q] = tlsrefs[q] + (IF p \in now THEN 1 ELSE 0) - (IF p \in old THEN 1 ELSE 0)
    BY <2>3
  <2> HIDE DEF old, now
  <2>7. tlsrefs'[q] = Cardinality(TlsConfUsers(q)) + Cardinality(now)
    BY <2>2, <2>5, <2>6
  <2> QED
    BY <2>4, <2>7
<1>3. (O!ConfsCounted <=> \A q \in Cptr : tlsrefs[q] = Cardinality(TlsConfUsers(q)) + Cardinality(TlsPtrUsers(q)))'
  BY TlsCounts, PTL
<1> QED
  BY <1>2, <1>3

\* One configuration is made or freed.
LEMMA TlsConfMoves ==
  ASSUME O!ConfsCounted, NEW k \in Conf, UNCHANGED tls,
         \A i \in Conf \ {k} : conf'[i] = conf[i],
         \A q \in Cptr : tlsrefs'[q] = tlsrefs[q] + (IF q = conf'[k] THEN 1 ELSE 0) - (IF q = conf[k] THEN 1 ELSE 0)
  PROVE  O!ConfsCounted'
<1>1. IsFiniteSet(Conf)
  BY Assumptions, TlsCount DEF O!TlsObjectsAssumption
<1>2. ASSUME NEW q \in Cptr
      PROVE  tlsrefs'[q] = Cardinality(TlsConfUsers(q))' + Cardinality(TlsPtrUsers(q))'
  <2> DEFINE old == TlsConfUsers(q)
             now == {i \in Conf : conf'[i] = q}
  <2>1. old \in SUBSET Conf /\ now \in SUBSET Conf /\ old \ {k} = now \ {k}
    BY DEF TlsConfUsers
  <2>2. /\ Cardinality(old) \in Nat /\ Cardinality(now) \in Nat
        /\ Cardinality(now) = Cardinality(old) + (IF k \in now THEN 1 ELSE 0) - (IF k \in old THEN 1 ELSE 0)
    <3> HIDE DEF old, now
    <3> QED
      BY <1>1, <2>1, TlsCountOne
  <2>3. (k \in now <=> q = conf'[k]) /\ (k \in old <=> q = conf[k])
    BY DEF TlsConfUsers
  <2>4. TlsConfUsers(q)' = now /\ TlsPtrUsers(q)' = TlsPtrUsers(q)
    BY DEF TlsPtrUsers, TlsConfUsers
  <2>5. tlsrefs[q] = Cardinality(old) + Cardinality(TlsPtrUsers(q)) /\ Cardinality(TlsPtrUsers(q)) \in Nat
    BY TlsCounts, TlsSizes
  <2>6. tlsrefs'[q] = tlsrefs[q] + (IF k \in now THEN 1 ELSE 0) - (IF k \in old THEN 1 ELSE 0)
    BY <2>3
  <2> HIDE DEF old, now
  <2>7. tlsrefs'[q] = Cardinality(now) + Cardinality(TlsPtrUsers(q))
    BY <2>2, <2>5, <2>6
  <2> QED
    BY <2>4, <2>7
<1>3. (O!ConfsCounted <=> \A q \in Cptr : tlsrefs[q] = Cardinality(TlsConfUsers(q)) + Cardinality(TlsPtrUsers(q)))'
  BY TlsCounts, PTL
<1> QED
  BY <1>2, <1>3

\* What libtls counts.
LEMMA TlsRecounted == ASSUME NEW from, NEW to, O!Recount(from, to)
                      PROVE  \A q \in Cptr : tlsrefs'[q] = tlsrefs[q] + (IF q = to THEN 1 ELSE 0) - (IF q = from THEN 1 ELSE 0)
BY DEF O!Recount

LEMMA TlsConfsInit == O!Init => TlsConfs
<1> SUFFICES ASSUME O!Init PROVE TlsConfs
  OBVIOUS
<1>1. ASSUME NEW q \in Cptr PROVE TlsConfUsers(q) = {} /\ TlsPtrUsers(q) = {}
  BY TlsNoConf DEF O!Init, O!Dead, TlsConfUsers, TlsPtrUsers
<1>2. O!ConfsCounted
  BY <1>1, TlsCounts, FS_EmptySet DEF O!Init
<1> QED
  BY <1>2 DEF TlsConfs, O!Init, O!Dead

\* A struct that is taken, changed or given back, with the count.
LEMMA TlsStructMoves ==
  ASSUME TlsIInv, TlsConfs, NEW p \in Ptr, NEW new \in [live : BOOLEAN, back : TlsTableType, conf : Cptr \cup {O!NULL}],
         ~ new.live => new.conf = O!NULL, tls' = [tls EXCEPT ![p] = new],
         UNCHANGED conf, O!Recount(tls[p].conf, new.conf)
  PROVE  TlsConfs'
<1>1. tls'[p] = new /\ \A i \in Ptr \ {p} : tls'[i] = tls[i]
  BY DEF TlsIInv, TlsTypes
<1>2. O!ConfsCounted'
  BY <1>1, TlsPtrMoves, TlsRecounted DEF TlsConfs
<1> QED
  BY <1>1, <1>2 DEF TlsConfs

LEMMA TlsSameConfs == ASSUME TlsConfs, UNCHANGED <<conf, tlsrefs, tls>> PROVE TlsConfs'
BY DEF TlsConfs, O!ConfsCounted

LEMMA TlsTables == ASSUME NEW c \in Ctx
                   PROVE  /\ O!NoTable \in TlsTableType
                          /\ \A calls \in TlsCalls : O!Table(c, calls) \in TlsTableType
BY DEF O!NoTable, O!Table, TlsTableType

LEMMA TlsNewConfs == ASSUME TlsIInv, TlsConfs, NEW p \in O!Unused, NEW k \in Cptr \cup {O!NULL}, NEW table \in TlsTableType,
                            tls' = [tls EXCEPT ![p] = [live |-> TRUE, back |-> table, conf |-> k]],
                            UNCHANGED conf, O!Recount(O!NULL, k)
                     PROVE  TlsConfs'
<1>1. p \in Ptr /\ tls[p].conf = O!NULL
  BY DEF TlsConfs, O!Unused
<1> DEFINE new == [live |-> TRUE, back |-> table, conf |-> k]
<1>2. new \in [live : BOOLEAN, back : TlsTableType, conf : Cptr \cup {O!NULL}] /\ new.live /\ new.conf = k
  OBVIOUS
<1> HIDE DEF new
<1> QED
  BY <1>1, <1>2, TlsStructMoves DEF new

LEMMA TlsReleaseConfs == ASSUME TlsIInv, TlsConfs, NEW c \in Ctx, NEW after, O!Release(c, after), UNCHANGED conf
                         PROVE  TlsConfs'
<1>1. CASE O!Live(c)
  <2>1. /\ ctx[c] \in Ptr /\ O!Recount(tls[ctx[c]].conf, O!NULL)
        /\ tls' = [tls EXCEPT ![ctx[c]] = O!Dead]
    BY <1>1 DEF O!Release, O!Live
  <2>2. /\ O!Dead \in [live : BOOLEAN, back : TlsTableType, conf : Cptr \cup {O!NULL}]
        /\ O!Dead.conf = O!NULL
    BY TlsTables DEF O!Dead
  <2> QED
    BY <2>1, <2>2, TlsStructMoves
<1>2. CASE ~ O!Live(c)
  BY <1>2, TlsSameConfs DEF O!Release
<1> QED
  BY <1>1, <1>2

LEMMA TlsConnectConfs == ASSUME TlsIInv, TlsConfs, NEW c \in Ctx, NEW calls, O!ConnectCbs(c, calls) PROVE TlsConfs'
<1>1. /\ ctx[c] \in Ptr /\ tls' = [tls EXCEPT ![ctx[c]].back = O!Table(c, calls)]
      /\ UNCHANGED <<conf, tlsrefs>>
  BY DEF O!ConnectCbs, O!Usable, O!Live
<1>2. \A p \in Ptr : tls'[p].conf = tls[p].conf /\ tls'[p].live = tls[p].live
  BY <1>1 DEF TlsIInv, TlsTypes
<1>3. \A q \in Cptr : {p \in Ptr : tls'[p].conf = q} = {p \in Ptr : tls[p].conf = q}
  BY <1>2
<1>4. O!ConfsCounted'
  BY <1>1, <1>3 DEF TlsConfs, O!ConfsCounted
<1> QED
  BY <1>2, <1>4 DEF TlsConfs

LEMMA TlsConfigureConfs == ASSUME TlsIInv, TlsConfs, NEW c \in Ctx, NEW k \in Conf, O!Configure(c, k) PROVE TlsConfs'
<1> DEFINE p == ctx[c]
           new == [tls[p] EXCEPT !.conf = conf[k]]
<1>1. p \in Ptr /\ tls[p].live /\ O!TlsObjectsAssumption
  BY Assumptions, TlsOwnStruct DEF O!Configure, O!Usable
<1>2. conf[k] \in Cptr \cup {O!NULL}
  BY DEF O!Configure, TlsIInv, TlsTypes
<1>3. tls[p] \in [live : BOOLEAN, back : TlsTableType, conf : Cptr \cup {O!NULL}]
  BY <1>1 DEF TlsIInv, TlsTypes
<1>4. /\ new \in [live : BOOLEAN, back : TlsTableType, conf : Cptr \cup {O!NULL}]
      /\ new.live /\ new.conf = conf[k]
  BY <1>1, <1>2, <1>3
<1>5. tls' = [tls EXCEPT ![p] = new] /\ O!Recount(tls[p].conf, conf[k]) /\ UNCHANGED conf
  BY DEF O!Configure
<1> HIDE DEF p, new
<1> QED
  BY <1>1, <1>4, <1>5, TlsStructMoves

LEMMA TlsResetConfs == ASSUME TlsIInv, TlsConfs, NEW c \in Ctx, O!Reset(c) PROVE TlsConfs'
<1> DEFINE new == [live |-> TRUE, back |-> O!NoTable, conf |-> O!NULL]
<1>1. /\ ctx[c] \in Ptr /\ O!Recount(tls[ctx[c]].conf, O!NULL)
      /\ tls' = [tls EXCEPT ![ctx[c]] = new] /\ UNCHANGED conf
  BY DEF O!Reset, O!Usable, O!Live
<1>2. /\ new \in [live : BOOLEAN, back : TlsTableType, conf : Cptr \cup {O!NULL}]
      /\ new.live /\ new.conf = O!NULL
  BY TlsTables
<1> HIDE DEF new
<1> QED
  BY <1>1, <1>2, TlsStructMoves

LEMMA TlsConfigConfs == ASSUME TlsIInv, TlsConfs, NEW k \in Conf, O!Config(k) PROVE TlsConfs'
<1> PICK q \in O!UnusedConf : conf' = [conf EXCEPT ![k] = q] /\ O!Recount(O!NULL, q)
  BY DEF O!Config
<1>1. conf[k] = O!Absent /\ UNCHANGED tls
  BY DEF O!Config, O!ctxVars
<1>2. conf'[k] = q /\ \A i \in Conf \ {k} : conf'[i] = conf[i]
  BY DEF TlsIInv, TlsTypes
<1>3. \A r \in Cptr : tlsrefs'[r] = tlsrefs[r] + (IF r = conf'[k] THEN 1 ELSE 0) - (IF r = conf[k] THEN 1 ELSE 0)
  BY <1>1, <1>2, TlsRecounted, TlsNoConf
<1>4. O!ConfsCounted'
  BY <1>1, <1>2, <1>3, TlsConfMoves DEF TlsConfs
<1> QED
  BY <1>1, <1>4 DEF TlsConfs

LEMMA TlsConfFreeConfs == ASSUME TlsIInv, TlsConfs, NEW k \in Conf, NEW after \in {O!NULL, O!Absent}, O!ConfFree(k, after)
                          PROVE  TlsConfs'
<1>1. conf' = [conf EXCEPT ![k] = after] /\ O!Recount(conf[k], O!NULL) /\ UNCHANGED tls
  BY DEF O!ConfFree, O!ctxVars
<1>2. conf'[k] = after /\ \A i \in Conf \ {k} : conf'[i] = conf[i]
  BY <1>1 DEF TlsIInv, TlsTypes
<1>3. \A r \in Cptr : tlsrefs'[r] = tlsrefs[r] + (IF r = conf'[k] THEN 1 ELSE 0) - (IF r = conf[k] THEN 1 ELSE 0)
  BY <1>1, <1>2, TlsRecounted, TlsNoConf
<1>4. O!ConfsCounted'
  BY <1>1, <1>2, <1>3, TlsConfMoves DEF TlsConfs
<1> QED
  BY <1>1, <1>4 DEF TlsConfs

LEMMA TlsConfsKeep == ASSUME TlsIInv, TlsConfs, [O!Next]_(O!vars) PROVE TlsConfs'
<1>1. ASSUME NEW c \in Ctx, O!Client(c) PROVE TlsConfs'
  <2> PICK p \in O!Unused : O!NewStruct(c, p, O!NULL)
    BY <1>1 DEF O!Client
  <2> QED
    BY <1>1, TlsNewConfs, TlsTables DEF O!Client, O!NewStruct
<1>2. ASSUME NEW s \in Ctx, NEW c \in Ctx, O!AcceptFds(s, c) PROVE TlsConfs'
  <2> DEFINE k == tls[ctx[s]].conf
  <2> PICK p \in O!Unused : O!NewStruct(c, p, k)
    BY <1>2 DEF O!AcceptFds
  <2>1. k \in Cptr \cup {O!NULL}
    BY <1>2 DEF O!AcceptFds, O!Usable, O!Live, TlsIInv, TlsTypes
  <2> QED
    BY <1>2, <2>1, TlsNewConfs, TlsTables DEF O!AcceptFds, O!NewStruct
<1>3. ASSUME NEW s \in Ctx, NEW c \in Ctx, NEW calls \in TlsCalls, O!AcceptCbs(s, c, calls) PROVE TlsConfs'
  <2> DEFINE k == tls[ctx[s]].conf
  <2> PICK p \in O!Unused : tls' = [tls EXCEPT ![p] = [live |-> TRUE, back |-> O!Table(c, calls), conf |-> k]]
    BY <1>3 DEF O!AcceptCbs
  <2>1. k \in Cptr \cup {O!NULL}
    BY <1>3 DEF O!AcceptCbs, O!Usable, O!Live, TlsIInv, TlsTypes
  <2> QED
    BY <1>3, <2>1, TlsNewConfs, TlsTables DEF O!AcceptCbs
<1>4. ASSUME NEW c \in Ctx, O!Close(c) \/ O!Collect(c) PROVE TlsConfs'
  BY <1>4, TlsReleaseConfs DEF O!Close, O!Collect
<1>5. ASSUME NEW c \in Ctx, O!Drop(c) \/ O!StrayCtx(c) PROVE TlsConfs'
  BY <1>5, TlsSameConfs DEF O!Drop, O!StrayCtx, O!ctxVars
<1>6. ASSUME NEW k \in Conf, O!StrayConf(k) PROVE TlsConfs'
  BY <1>6, TlsSameConfs DEF O!StrayConf, O!ctxVars
<1>7. CASE UNCHANGED O!vars
  BY <1>7, TlsSameConfs DEF O!vars, O!ctxVars
<1> QED
  BY <1>1, <1>2, <1>3, <1>4, <1>5, <1>6, <1>7, TlsResetConfs, TlsConnectConfs, TlsConfigureConfs, TlsConfigConfs,
     TlsConfFreeConfs
  DEF O!Next

LEMMA TlsObjectTypes == TlsIInv => O!TypeOK
BY DEF TlsIInv, TlsTypes, TlsTableType, O!TypeOK

\* Calls on contexts and configurations keep the strengthened invariant, whichever
\* address libtls gives out.
THEOREM TlsInvariance == ASSUME O!TlsObjectsAssumption PROVE O!Spec => []TlsIInv
<1>1. O!Init => TlsIInv
  BY TlsInitHolds
<1>2. TlsIInv /\ [O!Next]_(O!vars) => TlsIInv'
  BY TlsNextKeeps
<1> QED
  BY <1>1, <1>2, PTL DEF O!Spec

\* The Lua function that the callback of libtls finds by the address of its
\* struct tls is the one of that connection, also after the address was given
\* to a connection before: tls_close(), Ltls___gc() and Ltls_reset() take the
\* entry out with the struct.
THEOREM CallbackFound == ASSUME O!TlsObjectsAssumption PROVE O!Spec => []O!RightCallback
<1>1. TlsIInv => O!RightCallback
  BY DEF TlsIInv
<1> QED
  BY <1>1, TlsInvariance, PTL

\* Every struct tls is freed by one userdata, none twice; a connection whose
\* functions are in the registry is not collected before it is closed.
THEOREM StructOwned == ASSUME O!TlsObjectsAssumption PROVE O!Spec => []O!StructsOwned
<1>1. TlsIInv => O!StructsOwned
  BY TlsKept
<1> QED
  BY <1>1, TlsInvariance, PTL

-----------------------------------------------------------------------------
(* The names that glob() allocates are given back, for any number of        *)
(* iterators and matches.                                                   *)

\* An iterator has names behind what it gave, and is there when it has given some.
GlobIInv == /\ data \in [Iterator -> [idx : Nat, pathc : Nat, gc : BOOLEAN, there : BOOLEAN]]
            /\ \A g \in Iterator : data[g].idx <= data[g].pathc
            /\ globbed \subseteq Iterator
            /\ G!NamesFreed

LEMMA GlobInitHolds == G!Init => GlobIInv
BY DEF G!Init, G!Gone, GlobIInv, G!NamesFreed

\* What becomes of the iterators when one of them does.
LEMMA GlobChanged ==
  ASSUME GlobIInv, NEW g \in Iterator, NEW new \in [idx : Nat, pathc : Nat, gc : BOOLEAN, there : BOOLEAN],
         new.idx <= new.pathc, data' = [data EXCEPT ![g] = new],
         globbed' \subseteq Iterator, g \in globbed' <=> new.there /\ ~ new.gc,
         \A i \in Iterator \ {g} : i \in globbed' <=> i \in globbed,
         astray' => new.gc /\ new.idx > 0
  PROVE  GlobIInv'
<1>1. /\ data' \in [Iterator -> [idx : Nat, pathc : Nat, gc : BOOLEAN, there : BOOLEAN]]
      /\ data'[g] = new /\ \A i \in Iterator \ {g} : data'[i] = data[i]
  BY DEF GlobIInv
<1>2. \A i \in Iterator : i \in globbed' <=> data'[i].there /\ ~ data'[i].gc
  BY <1>1 DEF GlobIInv, G!NamesFreed
<1>3. \A i \in Iterator : data'[i].idx <= data'[i].pathc
  BY <1>1 DEF GlobIInv
<1>4. astray' => data'[g].gc /\ data'[g].idx <= data'[g].pathc /\ data'[g].idx > 0
  BY <1>1, <1>3
<1> QED
  BY <1>1, <1>2, <1>3, <1>4 DEF GlobIInv, G!NamesFreed

LEMMA GlobStepKeeps == ASSUME GlobIInv, ~ astray, NEW g \in Iterator, G!Step(g) PROVE GlobIInv'
<1> DEFINE was == data[g]
<1>1. was \in [idx : Nat, pathc : Nat, gc : BOOLEAN, there : BOOLEAN] /\ was.idx <= was.pathc /\ globbed \subseteq Iterator
  BY DEF GlobIInv
<1>2. g \in globbed <=> was.there /\ ~ was.gc
  BY DEF GlobIInv, G!NamesFreed
<1>3. CASE G!Gexpand(g)
  <2>1. ASSUME NEW n \in 1 .. MaxMatches, data' = [data EXCEPT ![g] = G!Opened(n, FALSE)],
               globbed' = globbed \cup {g}
        PROVE  GlobIInv'
    <3> DEFINE new == G!Opened(n, FALSE)
    <3>1. /\ new \in [idx : Nat, pathc : Nat, gc : BOOLEAN, there : BOOLEAN]
          /\ new.idx <= new.pathc /\ new.there /\ ~ new.gc
      <4>1. n \in Nat
        BY Assumptions DEF G!GlobsAssumption
      <4> QED
        BY <4>1 DEF G!Opened
    <3>2. ~ astray' /\ data' = [data EXCEPT ![g] = new]
      BY <1>3, <2>1 DEF G!Gexpand
    <3> HIDE DEF new
    <3> QED
      BY <1>1, <2>1, <3>1, <3>2, GlobChanged
  <2>2. ASSUME data' = [data EXCEPT ![g] = G!Opened(0, TRUE)], UNCHANGED globbed
        PROVE  GlobIInv'
    <3> DEFINE new == G!Opened(0, TRUE)
    <3>1. /\ new \in [idx : Nat, pathc : Nat, gc : BOOLEAN, there : BOOLEAN]
          /\ new.idx <= new.pathc /\ new.gc
      BY DEF G!Opened
    <3>2. ~ astray' /\ data' = [data EXCEPT ![g] = new] /\ ~ was.there
      BY <1>3, <2>2 DEF G!Gexpand
    <3> HIDE DEF new
    <3> QED
      BY <1>1, <1>2, <2>2, <3>1, <3>2, GlobChanged
  <2> QED
    BY <1>3, <2>1, <2>2 DEF G!Gexpand
<1>4. CASE G!GlobNext(g)
  <2>1. CASE was.idx < was.pathc
    <3> DEFINE new == [was EXCEPT !.idx = @ + 1]
    <3>1. /\ new \in [idx : Nat, pathc : Nat, gc : BOOLEAN, there : BOOLEAN]
          /\ new.idx <= new.pathc /\ new.idx > 0 /\ new.there = was.there /\ new.gc = was.gc
      BY <1>1, <2>1
    <3>2. /\ data' = [data EXCEPT ![g] = new] /\ globbed' = globbed /\ was.there
          /\ astray' => g \notin globbed
      BY <1>4, <2>1 DEF G!GlobNext
    <3> HIDE DEF new
    <3> QED
      BY <1>1, <1>2, <3>1, <3>2, GlobChanged
  <2>2. CASE ~ (was.idx < was.pathc)
    <3> DEFINE new == [was EXCEPT !.gc = TRUE]
    <3>1. /\ new \in [idx : Nat, pathc : Nat, gc : BOOLEAN, there : BOOLEAN]
          /\ new.idx <= new.pathc /\ new.gc
      BY <1>1
    <3>2. data' = [data EXCEPT ![g] = new] /\ globbed' = globbed \ {g} /\ ~ astray'
      BY <1>4, <2>2 DEF G!GlobNext, G!globfree
    <3> HIDE DEF new
    <3> QED
      BY <1>1, <3>1, <3>2, GlobChanged
  <2> QED
    BY <2>1, <2>2
<1>5. CASE G!Close(g)
  <2> DEFINE new == [was EXCEPT !.gc = TRUE]
  <2>1. /\ new \in [idx : Nat, pathc : Nat, gc : BOOLEAN, there : BOOLEAN]
        /\ new.idx <= new.pathc /\ new.gc
    BY <1>1
  <2>2. /\ data' = [data EXCEPT ![g] = new] /\ ~ astray'
        /\ globbed' = IF was.gc THEN globbed ELSE globbed \ {g}
    BY <1>5 DEF G!Close, G!globfree
  <2> HIDE DEF new
  <2> QED
    BY <1>1, <1>2, <2>1, <2>2, GlobChanged
<1>6. CASE G!Collect(g)
  <2>1. /\ G!Gone \in [idx : Nat, pathc : Nat, gc : BOOLEAN, there : BOOLEAN]
        /\ G!Gone.idx <= G!Gone.pathc /\ ~ G!Gone.there
    BY DEF G!Gone
  <2>2. /\ data' = [data EXCEPT ![g] = G!Gone] /\ ~ astray'
        /\ globbed' = IF was.gc THEN globbed ELSE globbed \ {g}
    BY <1>6 DEF G!Collect, G!globfree
  <2> QED
    BY <1>1, <1>2, <2>1, <2>2, GlobChanged
<1> QED
  BY <1>3, <1>4, <1>5, <1>6 DEF G!Step

LEMMA GlobNextKeeps == ASSUME GlobIInv, [G!Next]_(G!vars) PROVE GlobIInv'
<1>1. CASE UNCHANGED <<data, globbed, astray>>
  BY <1>1 DEF GlobIInv, G!NamesFreed
<1>2. ASSUME NEW found \in 1 .. MaxMatches, G!Expand(found, << >>) \/ G!Expand(found, list)
      PROVE  GlobIInv'
  BY <1>1, <1>2 DEF G!Expand
<1>3. ASSUME NEW g \in Iterator, ~ astray, G!Step(g) PROVE GlobIInv'
  BY <1>3, GlobStepKeeps
<1> QED
  BY <1>1, <1>2, <1>3 DEF G!Next, G!vars

LEMMA GlobTypes == GlobIInv => G!TypeOK
BY DEF GlobIInv, G!TypeOK
-----------------------------------------------------------------------------
(* The user, the limits and the processors are those that were asked for,   *)
(* for any users, amounts and sets of processors.                           *)

LimIds == Id \cup {L!Keep}
LimAmounts == 0 .. 2^Width - 1

\* The processors that may be used are some of those there are.
LimTypes == /\ system \in {"linux", "other"}
            /\ ids \in [uid : LimIds, euid : LimIds, suid : LimIds]
            /\ limit \in [cur : LimAmounts, max : LimAmounts]
            /\ limit.cur <= limit.max
            /\ allowed \subseteq online

LimIInv == LimTypes /\ L!Granted

LEMMA LimAssumed == /\ Id \subseteq Nat /\ Amount \subseteq LimAmounts
                    /\ 2^Width \in Nat \ {0} /\ LimAmounts \subseteq Nat /\ L!Keep = -1
BY Assumptions DEF L!LimitsAssumption, LimAmounts, L!Keep

LEMMA LimInitHolds == L!Init => LimIInv
<1> SUFFICES ASSUME L!Init PROVE LimIInv
  OBVIOUS
<1>1. PICK u \in Id : ids = [uid |-> u, euid |-> u, suid |-> u]
  BY DEF L!Init
<1>2. PICK most \in Amount : limit = [cur |-> most, max |-> most]
  BY DEF L!Init
<1>3. most \in LimAmounts /\ most \in Nat
  BY LimAssumed
<1>4. LimTypes
  BY <1>1, <1>2, <1>3 DEF L!Init, LimTypes, LimIds
<1>5. request.call = "none"
  BY DEF L!Init, L!Nobody
<1>6. L!Granted
  BY <1>5 DEF L!Granted, L!IdsAsAsked, L!LimitAsAsked, L!AffinityAsAsked
<1> QED
  BY <1>4, <1>6 DEF LimIInv

LEMMA LimSetuid == ASSUME LimIInv, NEW want \in L!Ids, L!Setuid(want) PROVE LimIInv'
<1>1. request' = [call |-> "setuid", want |-> want, before |-> ids] /\ UNCHANGED <<limit, allowed, system, online>>
  BY DEF L!Setuid
<1>2. want.uid \in Id /\ want.uid # L!Keep /\ {want.uid, want.euid, want.suid} \subseteq LimIds
  BY LimAssumed DEF L!Ids, LimIds
<1>3. ids \in [uid : LimIds, euid : LimIds, suid : LimIds]
  BY DEF LimIInv, LimTypes
<1>4. CASE system = "linux"
  <2>1. L!Setresuid(want)
    BY <1>4 DEF L!Setuid
  <2>2. CASE reply' = 0 /\ ids' = [uid |-> L!Chosen(want.uid, ids.uid), euid |-> L!Chosen(want.euid, ids.euid),
                                   suid |-> L!Chosen(want.suid, ids.suid)]
    <3>1. /\ ids' \in [uid : LimIds, euid : LimIds, suid : LimIds]
          /\ ids'.uid = want.uid /\ (want.euid # L!Keep => ids'.euid = want.euid)
      BY <1>2, <1>3, <2>2 DEF L!Chosen
    <3> QED
      BY <1>1, <1>4, <2>2, <3>1 DEF LimIInv, LimTypes, L!Granted, L!IdsAsAsked, L!LimitAsAsked, L!AffinityAsAsked
  <2>3. CASE reply' = 1 /\ UNCHANGED ids
    BY <1>1, <1>3, <1>4, <2>3 DEF LimIInv, LimTypes, L!Granted, L!IdsAsAsked, L!LimitAsAsked, L!AffinityAsAsked
  <2> QED
    BY <2>1, <2>2, <2>3 DEF L!Setresuid
<1>5. CASE system # "linux"
  <2>1. L!SetuidSeteuid(want)
    BY <1>5 DEF L!Setuid
  <2> DEFINE now == L!Become(want.uid)
  <2>2. now \in [uid : LimIds, euid : LimIds, suid : LimIds]
    BY <1>2, <1>3 DEF L!Become
  <2> HIDE DEF now
  <2>3. CASE reply' = 0 /\ ids' = [now EXCEPT !.euid = want.euid]
    <3>1. ids' \in [uid : LimIds, euid : LimIds, suid : LimIds] /\ ids'.euid = want.euid
      BY <1>2, <2>2, <2>3
    <3> QED
      BY <1>1, <1>5, <2>3, <3>1 DEF LimIInv, LimTypes, L!Granted, L!IdsAsAsked, L!LimitAsAsked, L!AffinityAsAsked
  <2>4. CASE reply' = 1 /\ ids' \in {ids, now}
    <3>1. ids' \in [uid : LimIds, euid : LimIds, suid : LimIds]
      BY <1>3, <2>2, <2>4
    <3>2. now.euid = want.uid /\ (now.uid # ids.uid \/ now.suid # ids.suid => L!Privileged(ids))
      BY <1>3 DEF now, L!Become
    <3>3. system' = "other"
      BY <1>1, <1>5 DEF LimIInv, LimTypes
    <3>4. \/ ids' = ids
          \/ /\ system' = "other" /\ ids'.euid = want.uid
             /\ ids'.uid # ids.uid \/ ids'.suid # ids.suid => L!Privileged(ids)
      BY <2>4, <3>2, <3>3
    <3>5. request'.want = want /\ request'.before = ids
      BY <1>1
    <3>6. ids' = request'.before \/ L!HalfDone(request.before, request.want)'
      BY <3>4, <3>5 DEF L!HalfDone, L!Privileged
    <3>7. L!IdsAsAsked'
      BY <2>4, <3>6 DEF L!IdsAsAsked
    <3> QED
      BY <1>1, <1>5, <2>4, <3>1, <3>7 DEF LimIInv, LimTypes, L!Granted, L!LimitAsAsked, L!AffinityAsAsked
  <2> QED
    BY <2>1, <2>3, <2>4 DEF L!SetuidSeteuid, now
<1> QED
  BY <1>4, <1>5

LEMMA LimValue == ASSUME NEW amount \in Amount, NEW unit \in {1, 2}
                  PROVE  amount * unit \in Nat /\ L!Value(amount, unit) \in LimAmounts
<1>1. amount \in Nat /\ 2^Width \in Nat \ {0}
  BY LimAssumed
<1>2. amount * unit \in Nat
  BY <1>1
<1> DEFINE p == 2^Width
           a == amount * unit
<1>3. p \in Nat /\ p > 0 /\ a \in Nat
  BY <1>1, <1>2
<1> HIDE DEF p, a
<1>4. a % p \in 0 .. p - 1
  BY <1>3
<1> QED
  BY <1>2, <1>4 DEF L!Value, LimAmounts, p, a

LEMMA LimSetLimit == ASSUME LimIInv, NEW which \in {"hard", "soft"}, NEW amount \in Amount, NEW unit \in {1, 2},
                            L!SetLimit(which, amount, unit)
                     PROVE  LimIInv'
<1> DEFINE v == L!Value(amount, unit)
           to == IF which = "hard" THEN [cur |-> v, max |-> v] ELSE [limit EXCEPT !.cur = v]
<1>1. /\ request' = [call |-> which, want |-> amount * unit, before |-> limit]
      /\ UNCHANGED <<ids, allowed, system, online>>
  BY DEF L!SetLimit
<1>2. v = (amount * unit) % 2^Width /\ v \in LimAmounts
  BY LimValue DEF L!Value
<1>3. L!Setrlimit(to)
  BY DEF L!SetLimit
<1> HIDE DEF v
<1>4. limit \in [cur : LimAmounts, max : LimAmounts] /\ limit.cur <= limit.max
  BY DEF LimIInv, LimTypes
<1>5. /\ to \in [cur : LimAmounts, max : LimAmounts] /\ to.cur = v
      /\ which = "soft" => to.max = limit.max
      /\ which = "hard" => to.max = v
  BY <1>2, <1>4
<1> HIDE DEF to
<1>6. limit' = limit \/ (limit' = to /\ to.cur <= to.max)
  BY <1>3 DEF L!Setrlimit
<1>7. limit' \in [cur : LimAmounts, max : LimAmounts] /\ limit'.cur <= limit'.max
  BY <1>4, <1>5, <1>6
<1>8. L!LimitAsAsked'
  BY <1>1, <1>2, <1>5, <1>6 DEF L!LimitAsAsked
<1>9. L!IdsAsAsked' /\ L!AffinityAsAsked'
  BY <1>1 DEF L!IdsAsAsked, L!AffinityAsAsked
<1> QED
  BY <1>1, <1>7, <1>8, <1>9 DEF LimIInv, LimTypes, L!Granted

LEMMA LimAffinity == ASSUME LimIInv, NEW want \in SUBSET L!Numbers, L!Setaffinity(want) PROVE LimIInv'
<1> DEFINE set == {i - 1 : i \in want} \cap online
<1>1. /\ request' = [call |-> "affinity", want |-> want, before |-> allowed]
      /\ reply' = IF set = {} THEN 1 ELSE 0
      /\ allowed' = IF set = {} THEN allowed ELSE set
      /\ UNCHANGED <<ids, limit, system, online>>
  BY DEF L!Setaffinity
<1>2. \A i \in L!Numbers : i \in Int
  BY DEF L!Numbers
<1>3. L!Numbers' = L!Numbers
  BY <1>1 DEF L!Numbers
<1>4. ASSUME reply' = 0, online = {i - 1 : i \in L!Numbers}
      PROVE  {i \in L!Numbers : i - 1 \in allowed'} = want
  <2>1. allowed' = set
    BY <1>1, <1>4
  <2>2. ASSUME NEW i \in want PROVE i - 1 \in set
    BY <1>4
  <2>3. ASSUME NEW i \in L!Numbers, i - 1 \in set PROVE i \in want
    <3>1. PICK j \in want : i - 1 = j - 1
      BY <2>3
    <3>2. i = j
      BY <1>2, <3>1
    <3> QED
      BY <3>1, <3>2
  <2> QED
    BY <2>1, <2>2, <2>3
<1>5. L!AffinityAsAsked'
  BY <1>1, <1>3, <1>4 DEF L!AffinityAsAsked, L!Getaffinity
<1>6. L!IdsAsAsked' /\ L!LimitAsAsked'
  BY <1>1 DEF L!IdsAsAsked, L!LimitAsAsked
<1>7. LimTypes'
  BY <1>1 DEF LimIInv, LimTypes
<1> QED
  BY <1>5, <1>6, <1>7 DEF LimIInv, L!Granted

LEMMA LimNextKeeps == ASSUME LimIInv, [L!Next]_(L!vars) PROVE LimIInv'
<1>1. CASE UNCHANGED L!vars
  BY <1>1 DEF LimIInv, LimTypes, L!vars, L!thingVars, L!Granted, L!IdsAsAsked, L!HalfDone, L!LimitAsAsked, L!AffinityAsAsked,
              L!Getaffinity, L!Numbers
<1> QED
  BY <1>1, LimSetuid, LimSetLimit, LimAffinity DEF L!Next

LEMMA LimKept == LimIInv => L!TypeOK /\ L!Granted
BY LimAssumed DEF LimIInv, LimTypes, LimIds, LimAmounts, L!TypeOK
-----------------------------------------------------------------------------
(* The system log: the library points to a string that is alive, and writes *)
(* as it was asked to, for any number of strings.                           *)

\* The string in the registry is the one the library has; what goes to stderr
\* is what open() was asked for, by the library or by the registry.
SlogIInv == /\ Y!TypeOK /\ perrors \in BOOLEAN /\ perror \in BOOLEAN
            /\ kept = tag /\ (kept # Nothing => kept \in strings)
            /\ due = [tag |-> tag, opts |-> due.opts]
            /\ perrors => opts = due.opts /\ ~ perror
            /\ ~ perrors => /\ opts = due.opts \ {"perror"}
                            /\ "perror" \in due.opts => perror

LEMMA SlogInitHolds == Y!Init => SlogIInv
<1> SUFFICES ASSUME Y!Init PROVE SlogIInv
  OBVIOUS
<1>1. due = [tag |-> tag, opts |-> due.opts] /\ due.opts = {}
  BY DEF Y!Init, Y!Fresh
<1>2. opts = {} /\ kept = tag /\ kept = Nothing /\ perror = FALSE /\ strings = {} /\ holds = {} /\ perrors \in BOOLEAN
  BY DEF Y!Init
<1> QED
  BY <1>1, <1>2 DEF Y!TypeOK, SlogIInv

LEMMA SlogNextKeeps == ASSUME SlogIInv, [Y!Next]_(Y!vars) PROVE SlogIInv'
<1>1. CASE UNCHANGED Y!vars
  BY <1>1 DEF SlogIInv, Y!TypeOK, Y!vars, Y!libVars, Y!luaVars
<1>2. ASSUME NEW s \in Ident, Y!MakeString(s) PROVE SlogIInv'
  BY <1>2 DEF SlogIInv, Y!TypeOK, Y!MakeString, Y!libVars, Y!luaVars
<1>3. ASSUME NEW s \in Ident, Y!Forget(s) PROVE SlogIInv'
  BY <1>3 DEF SlogIInv, Y!TypeOK, Y!Forget, Y!libVars, Y!luaVars
<1>4. ASSUME NEW s \in Ident, Y!CollectString(s) PROVE SlogIInv'
  BY <1>4 DEF SlogIInv, Y!TypeOK, Y!CollectString, Y!libVars, Y!luaVars
<1>5. ASSUME NEW s \in Ident, NEW flags \in SUBSET Y!Flags, Y!Open(s, flags) PROVE SlogIInv'
  <2>1. due' = [tag |-> s, opts |-> flags] /\ due'.tag = s /\ due'.opts = flags
    BY <1>5 DEF Y!Open
  <2> QED
    BY <1>5, <2>1 DEF SlogIInv, Y!TypeOK, Y!Open, Y!NotePerror
<1>6. ASSUME NEW flags \in SUBSET Y!Flags, Y!OpenRaises(flags) PROVE SlogIInv'
  BY <1>6 DEF SlogIInv, Y!TypeOK, Y!OpenRaises, Y!NotePerror, Y!libVars
<1>7. CASE Y!CloseLog
  BY <1>7 DEF SlogIInv, Y!TypeOK, Y!CloseLog, Y!Fresh
<1>8. CASE Y!Log
  BY <1>8 DEF SlogIInv, Y!TypeOK, Y!Log, Y!libVars, Y!luaVars
<1> QED
  BY <1>1, <1>2, <1>3, <1>4, <1>5, <1>6, <1>7, <1>8 DEF Y!Next

LEMMA SlogKept == SlogIInv => Y!TypeOK /\ Y!TagAlive /\ Y!AsOpened
<1> SUFFICES ASSUME SlogIInv PROVE Y!TypeOK /\ Y!TagAlive /\ Y!AsOpened
  OBVIOUS
<1>1. Y!TypeOK /\ Y!TagAlive
  BY DEF SlogIInv, Y!TagAlive
<1> DEFINE line == [tag |-> tag, opts |-> IF perror THEN opts \cup {"perror"} ELSE opts]
<1>2. due = [tag |-> tag, opts |-> due.opts] /\ due.opts = due.opts /\ due.tag = tag
  BY DEF SlogIInv
<1>3. CASE perrors
  <2>1. line = due
    BY <1>2, <1>3 DEF SlogIInv
  <2> QED
    BY <1>1, <2>1 DEF Y!AsOpened
<1>4. CASE ~ perrors
  <2>1. [due EXCEPT !.opts = @ \cup {"perror"}] = [tag |-> tag, opts |-> due.opts \cup {"perror"}]
    BY <1>2
  <2>2. CASE perror
    <3>1. opts \cup {"perror"} = due.opts \cup {"perror"}
      BY <1>4 DEF SlogIInv
    <3> QED
      BY <1>1, <1>4, <2>1, <2>2, <3>1 DEF Y!AsOpened
  <2>3. CASE ~ perror
    <3>1. opts = due.opts
      BY <1>4, <2>3 DEF SlogIInv
    <3>2. line = due
      BY <1>2, <2>3, <3>1
    <3> QED
      BY <1>1, <3>2 DEF Y!AsOpened
  <2> QED
    BY <2>2, <2>3 DEF SlogIInv
<1> QED
  BY <1>3, <1>4 DEF SlogIInv
-----------------------------------------------------------------------------
(* The bindings together: each keeps the invariant of its own.              *)

AllIInv == /\ part \in Parts
           /\ part = "fd"   => FdIInv /\ FdAnswers
           /\ part = "sopt" => SoptIInv /\ SoptHeld
           /\ part = "addr" => AddrTypes /\ AddrAsAskedEver
           /\ part = "tree" => TreeIInv /\ TreeRead
           /\ part = "path" => PathTypes /\ PathShorter
           /\ part = "glob" => GlobIInv
           /\ part = "proc" => ChildIInv
           /\ part = "exec" => ExecIInv
           /\ part = "lim"  => LimIInv
           /\ part = "tls"  => TlsIInv /\ TlsConfs
           /\ part = "ansi" => AnsiIInv
           /\ part = "slog" => SlogIInv

LEMMA AllAssumed == /\ D!KernelAssumption /\ C!ChildrenAssumption /\ E!ExecAssumption /\ O!TlsObjectsAssumption
BY Assumptions, Zenon

LEMMA AllInitHolds == AllInit => AllIInv
<1> SUFFICES ASSUME AllInit PROVE AllIInv
  OBVIOUS
<1>1. part = "fd" => FdIInv /\ FdAnswers
  BY AllAssumed, FdInitHolds, FdSaidInit, Zenon DEF AllInit
<1>2. part = "sopt" => SoptIInv /\ SoptHeld
  BY SoptInitHolds, SoptHeldInit, Zenon DEF AllInit
<1>3. part = "addr" => AddrTypes /\ AddrAsAskedEver
  BY AddrInitHolds, AddrAsAskedInit, Zenon DEF AllInit
<1>4. part = "tree" => TreeIInv /\ TreeRead
  BY TreeInitHolds, TreeReadInit, Zenon DEF AllInit
<1>5. part = "path" => PathTypes /\ PathShorter
  BY PathInitHolds, PathShorterInit, Zenon DEF AllInit
<1>6. part = "glob" => GlobIInv
  BY GlobInitHolds, Zenon DEF AllInit
<1>7. part = "proc" => ChildIInv
  BY ChildInitHolds, Zenon DEF AllInit
<1>8. part = "exec" => ExecIInv
  BY AllAssumed, ExecInitHolds, Zenon DEF AllInit
<1>9. part = "lim" => LimIInv
  BY LimInitHolds, Zenon DEF AllInit
<1>10. part = "tls" => TlsIInv /\ TlsConfs
  BY AllAssumed, TlsInitHolds, TlsConfsInit, Zenon DEF AllInit
<1>11. part = "ansi" => AnsiIInv
  BY AnsiInitHolds, Zenon DEF AllInit
<1>12. part = "slog" => SlogIInv
  BY SlogInitHolds, Zenon DEF AllInit
<1>13. part \in Parts
  BY Zenon DEF AllInit
<1> QED
  BY <1>1, <1>2, <1>3, <1>4, <1>5, <1>6, <1>7, <1>8, <1>9, <1>10, <1>11, <1>12, <1>13, Zenon DEF AllIInv

\* A step of all is one of the part that is chosen, or none.
LEMMA AllNextOne == ASSUME [AllNext]_allVars
  PROVE  /\ part' = part
         /\ part = "fd"   => [D!Next]_(D!vars)
         /\ part = "sopt" => [U!Next]_(U!vars)
         /\ part = "addr" => [A!Next]_(A!vars)
         /\ part = "tree" => [T!Next]_(T!vars)
         /\ part = "path" => [P!Next]_(P!vars)
         /\ part = "glob" => [G!Next]_(G!vars)
         /\ part = "proc" => [C!Next]_(C!vars)
         /\ part = "exec" => [E!Next]_(E!vars)
         /\ part = "lim"  => [L!Next]_(L!vars)
         /\ part = "tls"  => [O!Next]_(O!vars)
         /\ part = "ansi" => [N!Next]_(N!vars)
         /\ part = "slog" => [Y!Next]_(Y!vars)
<1>1. CASE AllNext
  BY <1>1, Zenon DEF AllNext
<1>2. CASE UNCHANGED allVars
  <2>1. /\ UNCHANGED part /\ UNCHANGED fdVars /\ UNCHANGED globVars /\ UNCHANGED procVars /\ UNCHANGED execVars
        /\ UNCHANGED soptVars /\ UNCHANGED addrVars /\ UNCHANGED treeVars /\ UNCHANGED pathVars
        /\ UNCHANGED limVars /\ UNCHANGED tlsVars /\ UNCHANGED ansiVars /\ UNCHANGED slogVars
    BY <1>2 DEF allVars
  <2>2. UNCHANGED D!vars
    BY <2>1 DEF fdVars, D!vars, D!kernelVars, D!filesVars
  <2>3. UNCHANGED G!vars /\ UNCHANGED C!vars /\ UNCHANGED E!vars
    BY <2>1 DEF globVars, G!vars, procVars, C!vars, C!childVars, execVars, E!vars
  <2>4. UNCHANGED L!vars
    BY <2>1 DEF limVars, L!vars, L!thingVars
  <2>5. UNCHANGED O!vars
    BY <2>1 DEF tlsVars, O!vars, O!ctxVars
  <2>6. UNCHANGED N!vars
    BY <2>1 DEF ansiVars, N!vars, N!kernelVars, N!tableVars, N!placeVars
  <2>7. UNCHANGED Y!vars
    BY <2>1 DEF slogVars, Y!vars, Y!libVars, Y!luaVars
  <2>8. UNCHANGED U!vars /\ UNCHANGED A!vars
    BY <2>1 DEF soptVars, U!vars, addrVars, A!vars
  <2>9. UNCHANGED T!vars /\ UNCHANGED P!vars
    BY <2>1 DEF treeVars, T!vars, pathVars, P!vars
  <2> QED
    BY <2>1, <2>2, <2>3, <2>4, <2>5, <2>6, <2>7, <2>8, <2>9, Zenon
<1> QED
  BY <1>1, <1>2, Zenon

LEMMA AllNextKeeps == ASSUME AllIInv, [AllNext]_allVars PROVE AllIInv'
<1>1. part = "fd" => (FdIInv /\ FdAnswers)'
  BY AllNextOne, AllAssumed, FdNextKeeps, FdAnswersKeep, Zenon DEF AllIInv
<1>2. part = "glob" => GlobIInv'
  BY AllNextOne, GlobNextKeeps, Zenon DEF AllIInv
<1>3. part = "proc" => ChildIInv'
  BY AllNextOne, AllAssumed, ChildNextKeeps, Zenon DEF AllIInv
<1>4. part = "exec" => ExecIInv'
  BY AllNextOne, AllAssumed, ExecNextKeeps, Zenon DEF AllIInv
<1>5. part = "lim" => LimIInv'
  BY AllNextOne, LimNextKeeps, Zenon DEF AllIInv
<1>6. part = "tls" => (TlsIInv /\ TlsConfs)'
  BY AllNextOne, AllAssumed, TlsNextKeeps, TlsConfsKeep, Zenon DEF AllIInv
<1>7. part = "ansi" => AnsiIInv'
  BY AllNextOne, AnsiNextKeeps, Zenon DEF AllIInv
<1>8. part = "slog" => SlogIInv'
  BY AllNextOne, SlogNextKeeps, Zenon DEF AllIInv
<1>9. part = "sopt" => (SoptIInv /\ SoptHeld)'
  BY AllNextOne, SoptNextKeeps, SoptHeldKept, Zenon DEF AllIInv
<1>10. part = "addr" => (AddrTypes /\ AddrAsAskedEver)'
  BY AllNextOne, AddrNextKeeps, AddrAsAskedKept, Zenon DEF AllIInv
<1>11. part = "tree" => (TreeIInv /\ TreeRead)'
  BY AllNextOne, TreeNextKeeps, TreeReadKept, Zenon DEF AllIInv
<1>12. part = "path" => (PathTypes /\ PathShorter)'
  BY AllNextOne, PathNextKeeps, PathShorterKept, Zenon DEF AllIInv
<1>13. part' = part /\ part \in Parts
  BY AllNextOne, Zenon DEF AllIInv
<1> QED
  BY <1>1, <1>2, <1>3, <1>4, <1>5, <1>6, <1>7, <1>8, <1>9, <1>10, <1>11, <1>12, <1>13, Zenon DEF AllIInv

\* Whichever binding the program uses, it keeps the strengthened invariant of
\* that binding.
THEOREM AllInvariance == AllSpec => []AllIInv
<1>1. AllInit => AllIInv
  BY AllInitHolds
<1>2. AllIInv /\ [AllNext]_allVars => AllIInv'
  BY AllNextKeeps
<1> QED
  BY <1>1, <1>2, PTL DEF AllSpec

\* The variables have values of their kinds in every binding: exec() writes envp
\* within its bounds, an address has the bytes of its family, every inode that is
\* in use has a name.
THEOREM AllTyped == AllSpec => []TypesOK
<1>1. AllIInv => TypesOK
  <2> SUFFICES ASSUME AllIInv PROVE TypesOK
    OBVIOUS
  <2>1. part = "fd" => D!TypeOK
    BY FdAnswersKept, Zenon DEF AllIInv
  <2>2. part = "sopt" => U!TypeOK
    BY SoptTypes, Zenon DEF AllIInv
  <2>3. part = "addr" => A!TypeOK
    BY AddrKept, Zenon DEF AllIInv
  <2>4. part = "tree" => T!TypeOK
    BY TreeKept, Zenon DEF AllIInv
  <2>5. part = "path" => P!TypeOK
    BY Zenon DEF AllIInv, PathTypes, P!TypeOK
  <2>6. part = "glob" => G!TypeOK
    BY GlobTypes, Zenon DEF AllIInv
  <2>7. part = "proc" => C!TypeOK
    BY DEF AllIInv, ChildIInv, ChildTypes, C!TypeOK
  <2>8. part = "exec" => E!TypeOK /\ E!EnvpFits
    BY DEF AllIInv, ExecIInv, ExecTypes, E!TypeOK
  <2>9. part = "lim" => L!TypeOK
    BY LimKept, Zenon DEF AllIInv
  <2>10. part = "tls" => O!TypeOK
    BY TlsObjectTypes, Zenon DEF AllIInv
  <2>11. part = "ansi" => N!TypeOK
    BY AnsiTypes, Zenon DEF AllIInv
  <2>12. part = "slog" => Y!TypeOK
    BY SlogKept, Zenon DEF AllIInv
  <2> QED
    BY <2>1, <2>2, <2>3, <2>4, <2>5, <2>6, <2>7, <2>8, <2>9, <2>10, <2>11, <2>12, Zenon DEF TypesOK
<1> QED
  BY <1>1, AllInvariance, PTL

\* What is closed or looked up belongs to one object: sockets, streams and
\* directories close what they opened themselves, the callback of libtls finds
\* its connection, and the system log writes the name it was given while that
\* is alive.
THEOREM AllOwned == AllSpec => []OneOwner
<1>1. AllIInv => OneOwner
  BY SlogKept, Zenon DEF AllIInv, OneOwner, FdIInv, TlsIInv
<1> QED
  BY <1>1, AllInvariance, PTL

\* Descriptors, the names of glob(), the memory of exec(), the structs and
\* configurations of libtls and the functions that are kept for handlers are
\* given back or still somebody's; src/tls.c counts as many users of a
\* configuration as there are.
THEOREM AllLeakless == AllSpec => []NoLeak
<1>1. AllIInv => NoLeak
  <2> SUFFICES ASSUME AllIInv PROVE NoLeak
    OBVIOUS
  <2>1. part = "exec" => E!ExecClean
    BY ExecGives, Zenon DEF AllIInv
  <2>2. part = "tls" => O!Owned
    BY AllAssumed, TlsKept, Zenon DEF AllIInv, TlsConfs, O!Owned
  <2>3. part = "ansi" => N!FuncsOwned
    BY Zenon DEF AllIInv, AnsiIInv, AnsiTable
  <2>4. part = "fd" => D!NoLeak
    BY Zenon DEF AllIInv, FdIInv
  <2>5. part = "glob" => G!NamesFreed
    BY Zenon DEF AllIInv, GlobIInv
  <2> QED
    BY <2>1, <2>2, <2>3, <2>4, <2>5, Zenon DEF NoLeak
<1> QED
  BY <1>1, AllInvariance, PTL

\* What the program is told is what happened: descriptors, the ends of children,
\* users, limits and processors, and caught signals.
THEOREM AllTrue == AllSpec => []TrueAnswer
<1>1. AllIInv => TrueAnswer
  <2> SUFFICES ASSUME AllIInv PROVE TrueAnswer
    OBVIOUS
  <2>1. part = "fd" => D!TrueAnswer
    BY FdAnswersKept, Zenon DEF AllIInv
  <2>2. part = "proc" => C!EndTold
    BY DEF AllIInv, ChildIInv, ChildKnown, C!EndTold
  <2>3. part = "lim" => L!Granted
    BY Zenon DEF AllIInv, LimIInv
  <2>4. part = "ansi" => N!NotForgotten /\ N!NotInvented /\ N!StaysCaught
    BY AnsiAnswers, Zenon DEF AllIInv
  <2> QED
    BY <2>1, <2>2, <2>3, <2>4, Zenon DEF TrueAnswer
<1> QED
  BY <1>1, AllInvariance, PTL

\* What the program writes reads back: options of sockets have the values that
\* were set, addresses are in one order and are what they were made of,
\* permissions and links are what was meant, the parts of a path make it again,
\* and the system log is open as it was opened.
THEOREM AllReadsBack == AllSpec => []ReadsBack
<1>1. AllIInv => ReadsBack
  <2> SUFFICES ASSUME AllIInv PROVE ReadsBack
    OBVIOUS
  <2>1. part = "sopt" => U!OptionsReadBack
    BY SoptReads, Zenon DEF AllIInv
  <2>2. part = "addr" => A!Ordered /\ A!MadeAsAsked
    BY AddrReads, Zenon DEF AllIInv
  <2>3. part = "tree" => T!ModesAsMeant /\ T!LinksShown
    BY TreeReads, Zenon DEF AllIInv
  <2>4. part = "path" => P!PartsJoin
    BY PathReads, Zenon DEF AllIInv
  <2>5. part = "slog" => Y!AsOpened
    BY SlogKept, Zenon DEF AllIInv
  <2> QED
    BY <2>1, <2>2, <2>3, <2>4, <2>5, Zenon DEF ReadsBack
<1> QED
  BY <1>1, AllInvariance, PTL
=============================================================================
