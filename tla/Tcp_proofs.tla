----------------------------- MODULE Tcp_proofs -----------------------------
(***************************************************************************)
(* That a connection of lua/nfl/tcp.lua repeats and reorders nothing, in   *)
(* either direction, what of the stream it loses, and that it waits for    *)
(* the right event: for streams, reads, buffers and sockets of any size.   *)
(*                                                                         *)
(* The inductive invariant says where the coroutine and the loop can be at *)
(* the same time (Control, Connecting), what the end of the stream leaves  *)
(* (Ending), who waits for what (Waiting), and of the three streams of     *)
(* bytes how their parts hang together: of those that come in (Kept), of   *)
(* those that go out (Sending), and of the ends of lines among the former  *)
(* (Lines).                                                                *)
(***************************************************************************)
EXTENDS Tcp, Connection_proofs

\* Which entry RUNQUEUE may have for a coroutine that is there.  Only one that
\* connects or sleeps has an entry while the loop waits: its timer gave it one.
Control ==
  /\ loop = "co" <=> at \in {"app", "read", "mode", "send", "close"}
  /\ loop \in {"co", "timers"} => queued = Nil
  /\ at = "start" => loop = "run" /\ queued = Packet(<< >>) /\ want = "r"
  /\ at = "ended" => want = "none" /\ loop \notin {"hangup", "read", "write"}
  /\ queued # Nil => queued.kind \in {"data", "true", "false"}
                     /\ (queued.kind # "data" => queued.bytes = << >>)
  /\ loop = "hangup" => link = "down"
  /\ loop = "write" => want = "w"
  /\ ~ broken /\ loop \in {"wait", "hangup", "read", "write"} => queued = Nil \/ at \in {"connect", "nap"}
  /\ at = "connect" => want = "w" \/ (want = "r" /\ loop = "run" /\ queued # Nil)
  /\ at = "connect" => /\ loop # "read"
                       /\ queued # Nil /\ want = "w" => queued.kind = "false" \/ eof

\* Before it is up, a connection has carried nothing.
Connecting ==
  link = "connecting" =>
    /\ at \in {"connect", "close", "ended"}
    /\ ~ eof /\ loop \notin {"hangup", "read", "write"}
    /\ queued = Nil \/ queued.kind = "false"
    /\ written = 0 /\ writebuf = << >> /\ leaving = << >> /\ peerGot = << >>
    /\ arrived = << >> /\ peerSent = 0

\* The end is seen once all has been received, or the connection has failed;
\* only then has the stream no buffer.
Ending ==
  /\ eof => (fin /\ arrived = << >>) \/ (link = "down" /\ loop # "read")
  /\ readbuf = Nil => eof
  /\ at = "refill" \/ (at = "read" /\ tried) => readbuf # Nil

\* What came in is in order though timers may have made some of it drop out.
Kept == /\ Ordered(Received \o arrived, peerSent)
        /\ overslept \cup dropped \subseteq 1 .. peerSent

\* What _drain() has left is the end of a unit at the front of the buffer, and
\* send() fails with nothing sent of it.
Sending ==
  /\ piece = SubSeq(writebuf, unit - Len(piece) + 1, unit) /\ Len(piece) <= unit
  /\ at \notin {"send", "drain"} => unit = 0
  /\ ~ broken /\ link = "up" =>
       /\ at = "send" => Room > 0 \/ unit = Len(piece)
       /\ at = "drain" /\ queued # Nil => Room > 0
       /\ loop = "write" => Len(leaving) < Window

\* The socket waits for bytes, except while _drain() waits for room, and after
\* a write that met the end.
Waiting ==
  ~ broken =>
    /\ loop = "co" => want = "r" \/ (eof /\ (at = "read" => ~ tried)) \/ at = "close"
    /\ at = "refill" => want = "r"
    /\ at = "nap" => want = "r" \/ eof
    /\ at = "drain" => /\ loop # "read"
                       /\ \/ want = "w" /\ (queued # Nil => eof)
                          \/ want = "r" /\ queued # Nil

NoEnd == NoEndBefore(readbuf, Len(readbuf) + 1)

\* No line end is before _rpos, which is kept for the next read() only when the
\* connection has failed.
Lines ==
  ~ broken /\ ~ eof =>
    /\ NoEndBefore(readbuf, rpos)
    /\ at = "refill" /\ format.kind = "line" => NoEnd /\ rpos <= Len(readbuf) + 1
    /\ at = "refill" /\ queued # Nil => queued.kind = "data" \/ link = "down"
    /\ \/ rpos = 1
       \/ at \in {"read", "refill"} /\ format.kind = "line"
       \/ link = "down" /\ loop # "read" /\ InHand = << >> /\ NoEnd

-----------------------------------------------------------------------------
LEMMA Values ==
  ASSUME TcpAssumption
  PROVE  /\ Nil # True /\ True.kind = "true" /\ True.bytes = << >>
         /\ Nil # False /\ False.kind = "false" /\ False.bytes = << >>
         /\ \A b \in Seq(Nat) : Nil # Packet(b) /\ Packet(b).kind = "data" /\ Packet(b).bytes = b
         /\ << >> \in Seq(Nat) /\ Nil # << >> /\ DOMAIN Is \subseteq Nat /\ InBytes \subseteq Seq(Nat)
         /\ Nil \notin Seq(Nat) /\ Nil \notin InBytes
<1>1. << >> \in Seq(Nat) /\ DOMAIN Is \subseteq Nat /\ Nil \notin Seq(Nat)
  BY DEF TcpAssumption, ConnectionAssumption
<1>2. InBytes \subseteq Seq(Nat)
  BY <1>1 DEF InBytes
<1>3. Nil \notin [kind : {"data", "true", "false", "nil"}, bytes : Seq(Nat)]
  BY DEF TcpAssumption, ConnectionAssumption
<1>4. ASSUME NEW k \in {"data", "true", "false", "nil"}, NEW b \in Seq(Nat)
      PROVE  Nil # Value(k, b) /\ Value(k, b).kind = k /\ Value(k, b).bytes = b
  BY <1>3 DEF Value
<1> QED
  BY <1>1, <1>2, <1>4 DEF Packet, True, False

-----------------------------------------------------------------------------
(* What the actions do to the variables that the control consists of.      *)

Handled == GoTo("run") /\ UNCHANGED <<peerVars, leaving, armed, broken, at, readVars, writeVars>>

LEMMA AccountDoes ==
  ASSUME Account
  PROVE  \/ at = "refill" /\ queued = Nil /\ UNCHANGED lostVars
         \/ /\ at = "nap"
            /\ overslept' = overslept \cup Range(arrived) /\ dropped' = dropped
         \/ /\ at # "nap" /\ ~ (at = "refill" /\ queued = Nil)
            /\ overslept' = overslept /\ dropped' = dropped \cup Range(arrived)
BY DEF Account, lostVars

LEMMA ReceiveDoes ==
  ASSUME Receive, Handled
  PROVE  /\ loop = "read" /\ loop' = "run"
         /\ \/ /\ arrived # << >> \/ fin
               /\ eof' <=> arrived = << >>
               /\ queued' = (IF queued = Nil THEN Packet(arrived) ELSE queued)
               /\ arrived' = << >>
               /\ Account
            \/ /\ link = "down" /\ UNCHANGED <<arrived, eof, lostVars>>
               /\ queued' = (IF queued = Nil THEN False ELSE queued)
         /\ UNCHANGED <<want, peerVars, leaving, broken, at, readVars, writeVars>>
BY Zenon DEF Receive, Handled, GoTo, Schedule

LEMMA HangupDoes ==
  ASSUME Hangup, Handled
  PROVE  /\ loop = "hangup" /\ loop' = "run" /\ eof'
         /\ queued' = (IF queued = Nil THEN Packet(<< >>) ELSE queued)
         /\ UNCHANGED <<want, peerVars, sockVars, broken, at, readVars, writeVars>>
BY Zenon DEF Hangup, Handled, GoTo, Schedule, sockVars

LEMMA WritableDoes ==
  ASSUME Writable, Handled
  PROVE  /\ loop = "write" /\ loop' = "run" /\ want' = "r"
         /\ queued' = (IF queued = Nil THEN True ELSE queued)
         /\ UNCHANGED <<eof, peerVars, sockVars, broken, at, readVars, writeVars>>
BY Zenon DEF Writable, Handled, GoTo, Schedule, sockVars, BackToReading

LEMMA RefilledDoes ==
  ASSUME Refilled
  PROVE  /\ loop = "run" /\ loop' = "co" /\ at = "refill" /\ queued # Nil /\ queued' = Nil
         /\ \/ /\ queued.kind = "data" /\ readbuf' = readbuf \o queued.bytes
               /\ tried' /\ at' = "read"
            \/ /\ queued.kind # "data" /\ readbuf' = readbuf
               /\ tried' = tried /\ at' = "app"
         /\ UNCHANGED <<want, broken, eof, format, rpos, used, writeVars>>
BY Zenon DEF Refilled, Resumed, GoTo, AddToBuffer

LEMMA LookDoes ==
  ASSUME LookAtBuffer
  PROVE  \E look :
           /\ look = Try(format, readbuf, rpos, eof, tried)
           /\ readbuf' = look.buf /\ rpos' = look.rpos /\ used' = used \o look.used
           /\ loop = "co" /\ at = "read"
           /\ \/ look.more /\ at' = "refill" /\ loop' = "run"
              \/ ~ look.more /\ at' = "app" /\ loop' = loop
           /\ UNCHANGED <<sockVars, want, queued, broken, eof, format, tried, writeVars>>
BY Zenon DEF LookAtBuffer, Look, Yield, Go, GoTo, Does

\* What a timer has broken is not mended.
LEMMA BrokenStays == ASSUME [Next]_vars, broken PROVE broken'
<1>1. CASE TimerDue /\ Aside
  BY <1>1, Zenon DEF TimerDue
<1>2. CASE (NoTimerDue \/ Wait) /\ Aside
  BY <1>2, Zenon DEF NoTimerDue, Wait
<1>3. CASE Peer \/ Handle \/ UNCHANGED vars
  BY <1>3, Zenon DEF Peer, Handle, vars, connVars, loopVars
<1>4. CASE RunStep
  BY <1>4, Zenon DEF RunStep, Start, ConnectDone, Refilled, DrainOn, WakeUp, EndRun
<1>5. CASE CoStep
  BY <1>5, Zenon DEF CoStep, Ioing, SetTimer, Read, Write, Mode, Flush, StartDrain, Go, LookAtBuffer, Look,
     Yield, Close, SendAll, Drained, SendSome, SendFails, NotDrained, CloseSocket, EndSocket, Nap
<1> QED
  BY <1>1, <1>2, <1>3, <1>4, <1>5, Zenon DEF Next, Environment, Program, LoopStep, Aside

\* A look finds the buffer as a reader may.
LEMMA LookTyped ==
  ASSUME TcpAssumption, TypeOK, Ending, at = "read"
  PROVE  LookKeeps(DOMAIN Is, Try(format, readbuf, rpos, eof, tried))
<1>1. /\ readbuf = Nil \/ readbuf \in Seq(DOMAIN Is)
      /\ format \in [kind : {"bytes", "line", "block", "all"}, n : Nat]
  BY DEF TypeOK, ConnectionTypeOK, InBytes, TcpAssumption, ConnectionAssumption
<1>2. Nil \notin Seq(DOMAIN Is)
  BY Values DEF InBytes
<1> QED
  BY <1>1, <1>2, TryKeeps DEF Ending
-----------------------------------------------------------------------------
(* The coroutine and the loop.                                             *)

LEMMA ControlStep ==
  ASSUME TcpAssumption, TypeOK, Control, [Next]_vars PROVE Control'
<1> USE Values DEF Control, InHand
<1>0. arrived \in Seq(Nat) /\ (queued # Nil => queued.bytes \in Seq(Nat))
  BY DEF TypeOK, ConnectionTypeOK, InBytes
<1>1. CASE Peer
  BY <1>1 DEF Peer, LinkUp, LinkDown, PeerSends, PeerShuts, PeerReads, loopVars, sockVars
<1>2. CASE TimerDue /\ Aside
  BY <1>0, <1>2, TimerDueDoes DEF peerVars
<1>3. CASE NoTimerDue /\ Aside
  BY <1>3 DEF NoTimerDue, Aside, GoTo, peerVars
<1>4. CASE Wait /\ Aside
  BY <1>4, WaitDoes DEF peerVars
<1>5. CASE Hangup /\ Handled
  BY <1>5, HangupDoes DEF peerVars
<1>6. CASE Receive /\ Handled
  BY <1>0, <1>6, ReceiveDoes DEF peerVars
<1>7. CASE Writable /\ Handled
  BY <1>7, WritableDoes DEF peerVars
<1>8. CASE RunStep
  <2>1. CASE Start
    BY <2>1, <1>8 DEF RunStep, Start, Resumed, GoTo, peerVars
  <2>2. CASE ConnectDone
    BY <2>2, <1>8 DEF RunStep, ConnectDone, Resumed, GoTo, peerVars
  <2>3. CASE Refilled
    BY <2>3, <1>8 DEF RunStep, Refilled, Resumed, GoTo, peerVars
  <2>4. CASE DrainOn
    BY <2>4, <1>8 DEF RunStep, DrainOn, Resumed, GoTo, peerVars
  <2>5. CASE EndRun
    BY <2>5, <1>8 DEF RunStep, EndRun, GoTo, peerVars
  <2>6. CASE WakeUp
    BY <2>6, <1>8 DEF RunStep, WakeUp, Resumed, GoTo, peerVars
  <2> QED
    BY <1>8, <2>1, <2>2, <2>3, <2>4, <2>5, <2>6 DEF RunStep
<1>9. CASE CoStep
  <2>1. CASE Ioing
    BY <2>1, <1>9 DEF CoStep, Ioing, SetTimer, Read, Write, Mode, Flush, StartDrain, Does, Go, peerVars
  <2>2. CASE LookAtBuffer
    BY <2>2, <1>9, LookDoes DEF CoStep, peerVars
  <2>3. CASE Close
    BY <2>3, <1>9 DEF CoStep, Close, Does, Go, peerVars, StartDrain
  <2>4. CASE SendAll
    BY <2>4, <1>9 DEF CoStep, SendAll, Does, Drained, Go, peerVars, TypeOK, ConnectionTypeOK
  <2>5. CASE SendSome
    BY <2>5, <1>9 DEF CoStep, SendSome, Does, Yield, GoTo, peerVars
  <2>6. CASE SendFails
    BY <2>6, <1>9 DEF CoStep, SendFails, Does, NotDrained, Go, peerVars
  <2>7. CASE CloseSocket
    BY <2>7, <1>9 DEF CoStep, CloseSocket, Does, EndSocket, Yield, GoTo, peerVars
  <2>8. CASE Nap
    BY <2>8, <1>9 DEF CoStep, Nap, Does, Yield, GoTo, peerVars
  <2> QED
    BY <1>9, <2>1, <2>2, <2>3, <2>4, <2>5, <2>6, <2>7, <2>8 DEF CoStep
<1>10. CASE UNCHANGED vars
  BY <1>10 DEF vars, connVars, peerVars, sockVars, loopVars
<1> QED
  BY <1>1, <1>2, <1>3, <1>4, <1>5, <1>6, <1>7, <1>8, <1>9, <1>10 DEF Next, Environment, Program, LoopStep, Handle, Aside, Handled

LEMMA ConnectingStep ==
  ASSUME TcpAssumption, TypeOK, Control, Connecting, [Next]_vars PROVE Connecting'
<1> USE Values DEF Connecting
<1>0. queued # Nil => queued.kind \in {"data", "true", "false"}
  BY DEF Control
<1>1. CASE Peer
  BY <1>1 DEF Peer, LinkUp, LinkDown, PeerSends, PeerShuts, PeerReads, loopVars, writeVars, sockVars
<1>2. CASE TimerDue /\ Aside
  BY <1>2, TimerDueDoes DEF peerVars, sockVars, writeVars
<1>3. CASE NoTimerDue /\ Aside
  BY <1>3 DEF NoTimerDue, Aside, GoTo, peerVars, sockVars, writeVars
<1>4. CASE Wait /\ Aside
  BY <1>4, WaitDoes DEF peerVars, sockVars, writeVars, Control
<1>5. CASE Handle
  BY <1>5 DEF Handle, Hangup, Receive, Writable, peerVars
<1>6. CASE RunStep
  <2>1. CASE Start
    BY <2>1, <1>6 DEF RunStep, Start, Resumed, GoTo, peerVars, sockVars, writeVars
  <2>2. CASE ConnectDone
    BY <2>2, <1>0, <1>6 DEF RunStep, ConnectDone, Resumed, GoTo, peerVars, sockVars, writeVars
  <2>3. CASE Refilled
    BY <2>3, <1>6 DEF RunStep, Refilled, Resumed, GoTo, peerVars, sockVars, writeVars
  <2>4. CASE DrainOn
    BY <2>4, <1>6 DEF RunStep, DrainOn, Resumed, GoTo, peerVars, sockVars, writeVars
  <2>5. CASE EndRun
    BY <2>5, <1>6 DEF RunStep, EndRun, GoTo, peerVars, sockVars, writeVars
  <2>6. CASE WakeUp
    BY <2>6, <1>6 DEF RunStep, WakeUp, Resumed, GoTo, peerVars, sockVars, writeVars
  <2> QED
    BY <1>6, <2>1, <2>2, <2>3, <2>4, <2>5, <2>6 DEF RunStep
<1>7. CASE CoStep
  <2>1. CASE CloseSocket
    BY <2>1, <1>7 DEF CoStep, CloseSocket, Does, EndSocket, Yield, GoTo, peerVars, sockVars, writeVars
  <2>2. CASE LookAtBuffer
    BY <2>2, <1>7, LookDoes DEF CoStep, peerVars
  <2>3. CASE Ioing \/ Nap \/ Close \/ SendAll \/ SendSome \/ SendFails
    <3>1. at \notin {"connect", "close", "ended"}
      BY <2>3 DEF Ioing, SetTimer, Read, Write, Mode, Flush, Nap, Close, SendAll, SendSome, SendFails, Does
    <3> QED
      BY <1>7, <3>1 DEF CoStep, peerVars
  <2> QED
    BY <1>7, <2>1, <2>2, <2>3 DEF CoStep
<1>8. CASE UNCHANGED vars
  BY <1>8 DEF vars, connVars, peerVars, sockVars, loopVars, writeVars
<1> QED
  BY <1>1, <1>2, <1>3, <1>4, <1>5, <1>6, <1>7, <1>8 DEF Next, Environment, Program, LoopStep, Aside

LEMMA EndingStep ==
  ASSUME TcpAssumption, TypeOK, Control, Ending, [Next]_vars PROVE Ending'
<1> USE Values DEF Ending
<1>0. arrived \in Seq(Nat) /\ (queued # Nil => queued.bytes \in Seq(Nat))
      /\ (readbuf # Nil => readbuf \in Seq(Nat))
  BY DEF TypeOK, ConnectionTypeOK, InBytes
<1>1. CASE Peer
  BY <1>1 DEF Peer, LinkUp, LinkDown, PeerSends, PeerShuts, PeerReads, loopVars, sockVars, readVars
<1>2. CASE TimerDue /\ Aside
  BY <1>2, TimerDueDoes DEF peerVars, sockVars, readVars
<1>3. CASE NoTimerDue /\ Aside
  BY <1>3 DEF NoTimerDue, Aside, GoTo, peerVars, sockVars, readVars
<1>4. CASE Wait /\ Aside
  BY <1>4, WaitDoes DEF peerVars, sockVars, readVars
<1>5. CASE Hangup /\ Handled
  BY <1>5, HangupDoes DEF peerVars, sockVars, readVars, Control
<1>6. CASE Receive /\ Handled
  BY <1>6, ReceiveDoes DEF peerVars, readVars
<1>7. CASE Writable /\ Handled
  BY <1>7, WritableDoes DEF peerVars, sockVars, readVars
<1>8. CASE RunStep
  <2>1. CASE Start
    BY <2>1, <1>8 DEF RunStep, Start, Resumed, GoTo, peerVars, sockVars, readVars
  <2>2. CASE ConnectDone
    BY <2>2, <1>8 DEF RunStep, ConnectDone, Resumed, GoTo, peerVars, sockVars, readVars
  <2>3. CASE Refilled
    <3>1. readbuf' # Nil
      <4>1. readbuf \in Seq(Nat) /\ queued.bytes \in Seq(Nat)
        BY <1>0, <2>3, RefilledDoes
      <4>2. readbuf \o queued.bytes \in Seq(Nat)
        BY <4>1
      <4> QED
        BY <2>3, <4>2, RefilledDoes
    <3> QED
      BY <1>8, <2>3, <3>1, RefilledDoes DEF RunStep, peerVars, sockVars
  <2>4. CASE DrainOn
    BY <2>4, <1>8 DEF RunStep, DrainOn, Resumed, GoTo, peerVars, sockVars, readVars
  <2>5. CASE EndRun
    BY <2>5, <1>8 DEF RunStep, EndRun, GoTo, peerVars, sockVars, readVars
  <2>6. CASE WakeUp
    BY <2>6, <1>8 DEF RunStep, WakeUp, Resumed, GoTo, peerVars, sockVars, readVars
  <2> QED
    BY <1>8, <2>1, <2>2, <2>3, <2>4, <2>5, <2>6 DEF RunStep
<1>9. CASE CoStep
  <2>1. CASE LookAtBuffer
    <3>1. LookKeeps(DOMAIN Is, Try(format, readbuf, rpos, eof, tried))
      BY <2>1, <1>0, LookTyped DEF LookAtBuffer, Look, Does
    <3> QED
      BY <2>1, <1>9, <3>1, LookDoes DEF CoStep, peerVars, sockVars, LookKeeps
  <2>2. CASE Ioing
    BY <2>2, <1>9 DEF CoStep, Ioing, SetTimer, Read, Write, Mode, Flush, StartDrain, Does, Go,
                      peerVars, sockVars, readVars
  <2>3. CASE Close
    BY <2>3, <1>9 DEF CoStep, Close, Does, Go, peerVars, StartDrain, sockVars, readVars
  <2>4. CASE SendAll
    BY <2>4, <1>9 DEF CoStep, SendAll, Does, Drained, Go, peerVars, TypeOK, ConnectionTypeOK, readVars
  <2>5. CASE SendSome
    BY <2>5, <1>9 DEF CoStep, SendSome, Does, Yield, GoTo, peerVars, readVars
  <2>6. CASE SendFails
    BY <2>6, <1>9 DEF CoStep, SendFails, Does, NotDrained, Go, peerVars, sockVars, readVars
  <2>7. CASE CloseSocket
    BY <2>7, <1>9 DEF CoStep, CloseSocket, Does, EndSocket, Yield, GoTo, peerVars, sockVars, readVars
  <2>8. CASE Nap
    BY <2>8, <1>9 DEF CoStep, Nap, Does, Yield, GoTo, peerVars, sockVars, readVars
  <2> QED
    BY <1>9, <2>1, <2>2, <2>3, <2>4, <2>5, <2>6, <2>7, <2>8 DEF CoStep
<1>10. CASE UNCHANGED vars
  BY <1>10 DEF vars, connVars, peerVars, sockVars, loopVars, readVars
<1> QED
  BY <1>1, <1>2, <1>3, <1>4, <1>5, <1>6, <1>7, <1>8, <1>9, <1>10 DEF Next, Environment, Program, LoopStep, Handle, Aside, Handled

-----------------------------------------------------------------------------
(* The bytes that come in.                                                 *)

LEMMA Parts ==
  ASSUME TcpAssumption, TypeOK, Control
  PROVE  /\ used \in Seq(Nat) /\ Bytes(readbuf) \in Seq(Nat) /\ InHand \in Seq(Nat) /\ arrived \in Seq(Nat)
         /\ Received \in Seq(Nat) /\ Received \o arrived \in Seq(Nat)
         /\ peerSent \in Nat
         /\ readbuf # Nil => readbuf \in Seq(Nat) /\ Bytes(readbuf) = readbuf
<1>1. /\ used \in InBytes /\ Bytes(readbuf) \in InBytes /\ InHand \in InBytes /\ arrived \in InBytes
      /\ peerSent \in Nat
  <2>1. << >> \in InBytes
    BY DEF InBytes
  <2> QED
    BY <2>1 DEF TypeOK, ConnectionTypeOK, Bytes, InHand
<1>2. used \o Bytes(readbuf) \in Seq(Nat)
  BY <1>1, Values
<1> QED
  BY <1>1, <1>2, Values DEF Received, Bytes

\* There is no more in the buffer than the stream has.
LEMMA BufferFits ==
  ASSUME TcpAssumption, TypeOK, Control, Kept, readbuf # Nil
  PROVE  readbuf \in Seq(Nat) /\ Len(readbuf) \in Nat /\ Len(readbuf) <= Len(Is)
<1>1. /\ used \in Seq(Nat) /\ readbuf \in Seq(Nat) /\ InHand \in Seq(Nat) /\ arrived \in Seq(Nat)
      /\ peerSent \in Nat /\ Bytes(readbuf) = readbuf
  BY Parts
<1>2. Len(Received \o arrived) = Len(used) + Len(readbuf) + Len(InHand) + Len(arrived)
  BY <1>1 DEF Received
<1>3. Len(Received \o arrived) <= peerSent
  BY <1>1, OrderedLength DEF Kept
<1>4. peerSent <= Len(Is) /\ Len(Is) \in Nat
  <2>1. Coming = [k \in 1 .. Len(Is) |-> k] /\ Len(Is) \in Nat
    BY DEF TcpAssumption, ConnectionAssumption
  <2> QED
    BY <2>1 DEF TypeOK, ConnectionTypeOK
<1>5. Len(used) \in Nat /\ Len(readbuf) \in Nat /\ Len(InHand) \in Nat /\ Len(arrived) \in Nat
  BY <1>1
<1> QED
  BY <1>1, <1>2, <1>3, <1>4, <1>5

LEMMA FrontOfBuffer ==
  ASSUME TcpAssumption, TypeOK, Piece(mode, WSize, writebuf) # Nil
  PROVE  \E n \in 0 .. Len(writebuf) : Piece(mode, WSize, writebuf) = Take(writebuf, n)
<1>1. /\ writebuf \in Seq(1 .. Out) /\ mode \in {"no", "line", "full"} /\ WSize \in Nat
      /\ Nil \notin Seq(1 .. Out)
  <2>1. Nil \notin Seq(Nat)
    BY Values
  <2>2. ASSUME NEW S, S \subseteq Nat PROVE Seq(S) \subseteq Seq(Nat)
    BY <2>2, SeqMonotonic
  <2>3. 1 .. Out \subseteq Nat
    BY DEF TcpAssumption, ConnectionAssumption
  <2> QED
    BY <2>1, <2>2, <2>3 DEF TypeOK, ConnectionTypeOK, OutBytes, TcpAssumption, ConnectionAssumption
<1> QED
  BY <1>1, PieceIsFront

\* The stream stays as it is, or grows at its end, or loses what came in, while
\* the coroutine sleeps or once a timer has broken in.
StreamStays == /\ Received' \o arrived' = Received \o arrived
               /\ peerSent' = peerSent
               /\ UNCHANGED lostVars
StreamGrows == /\ Received' \o arrived' = Append(Received \o arrived, peerSent + 1)
               /\ peerSent' = peerSent + 1
               /\ UNCHANGED lostVars
StreamLoses == /\ Received' \o arrived' = Received
               /\ peerSent' = peerSent
               /\ overslept' \cup dropped' = (overslept \cup dropped) \cup Range(arrived)
               /\ broken \/ dropped' = dropped

LEMMA Unmoved ==
  ASSUME used' = used, readbuf' = readbuf, InHand' = InHand, arrived' = arrived, peerSent' = peerSent,
         UNCHANGED lostVars
  PROVE  StreamStays
BY DEF StreamStays, Received, Bytes

LEMMA StreamStep ==
  ASSUME TcpAssumption, TypeOK, Control, Ending, Waiting, [Next]_vars
  PROVE  StreamStays \/ StreamGrows \/ StreamLoses
<1>0. /\ used \in Seq(Nat) /\ Bytes(readbuf) \in Seq(Nat) /\ InHand \in Seq(Nat) /\ arrived \in Seq(Nat)
      /\ Received \in Seq(Nat) /\ Received \o arrived \in Seq(Nat) /\ peerSent \in Nat
      /\ readbuf # Nil => readbuf \in Seq(Nat) /\ Bytes(readbuf) = readbuf
  BY Parts
<1>a. used \in Seq(Nat) /\ InHand \in Seq(Nat) /\ arrived \in Seq(Nat)
  BY <1>0
<1>1. CASE Peer /\ UNCHANGED lostVars
  <2>1. used' = used /\ readbuf' = readbuf /\ queued' = queued /\ InHand' = InHand
    BY <1>1, Zenon DEF Peer, loopVars, readVars, InHand
  <2>2. CASE PeerSends
    <3>1. peerSent \in 0 .. Len(Coming) - 1 /\ peerSent' = peerSent + 1 /\ arrived' = Append(arrived, Coming[peerSent + 1])
      BY <2>2 DEF PeerSends, TypeOK, ConnectionTypeOK
    <3>2. Coming[peerSent + 1] = peerSent + 1
      <4>1. Coming = [k \in 1 .. Len(Is) |-> k] /\ Len(Is) \in Nat
        BY DEF TcpAssumption, ConnectionAssumption
      <4>2. Len(Coming) = Len(Is)
        BY <4>1
      <4> QED
        BY <3>1, <4>1, <4>2
    <3>3. Received' = Received
      BY <2>1 DEF Received, Bytes
    <3>4. Received \o Append(arrived, peerSent + 1) = Append(Received \o arrived, peerSent + 1)
      OBVIOUS
    <3> QED
      BY <1>1, <3>1, <3>2, <3>3, <3>4 DEF StreamGrows
  <2>3. CASE LinkUp \/ LinkDown \/ PeerShuts \/ PeerReads
    BY <1>1, <2>1, <2>3, Unmoved DEF LinkUp, LinkDown, PeerShuts, PeerReads, sockVars
  <2> QED
    BY <1>1, <2>2, <2>3 DEF Peer
<1>2. CASE TimerDue /\ Aside /\ UNCHANGED lostVars
  BY <1>2, TimerDueDoes, Unmoved, Values DEF peerVars, sockVars, readVars, InHand
<1>3. CASE NoTimerDue /\ Aside /\ UNCHANGED lostVars
  BY <1>3, Unmoved DEF NoTimerDue, Aside, peerVars, sockVars, readVars, InHand
<1>4. CASE Wait /\ Aside /\ UNCHANGED lostVars
  BY <1>4, WaitDoes, Unmoved DEF peerVars, sockVars, readVars, InHand
<1>5. CASE Hangup /\ Handled /\ UNCHANGED lostVars
  BY <1>5, HangupDoes, Unmoved, Values DEF peerVars, sockVars, readVars, InHand
<1>6. CASE Receive /\ Handled
  <2>1. used' = used /\ readbuf' = readbuf /\ peerSent' = peerSent /\ Bytes(readbuf)' = Bytes(readbuf)
    BY <1>6, ReceiveDoes DEF readVars, peerVars, Bytes
  <2> DEFINE front == used \o Bytes(readbuf)
  <2>2. front \in Seq(Nat) /\ front' = front
    BY <1>0, <2>1, Regroup
  <2>3. Received = front \o InHand /\ Received' = front \o InHand'
    BY <2>1 DEF Received
  <2> HIDE DEF front
  <2>4. CASE /\ arrived' = << >> /\ UNCHANGED lostVars
             /\ at = "refill" /\ queued = Nil /\ queued' = Packet(arrived)
    <3>1. InHand = << >> /\ InHand' = arrived
      BY <1>0, <1>6, <2>4, ReceiveDoes, Values DEF InHand
    <3>2. (front \o arrived) \o << >> = (front \o << >>) \o arrived
      BY <2>2
    <3> QED
      BY <2>1, <2>3, <2>4, <3>1, <3>2 DEF StreamStays
  <2>5. CASE arrived' = << >> /\ Account /\ ~ (at = "refill" /\ queued = Nil)
    <3>1. InHand' = InHand
      BY <1>6, <2>5, ReceiveDoes DEF InHand
    <3>2. Received' = Received
      BY <2>3, <3>1
    <3>3. Received \in Seq(Nat) /\ Received \o << >> = Received
      BY <1>0, ConcatEmptySeq
    <3>4. overslept' \cup dropped' = (overslept \cup dropped) \cup Range(arrived)
      BY <2>5, AccountDoes
    <3>5. broken \/ dropped' = dropped
      <4>1. loop = "read"
        BY <1>6, ReceiveDoes
      <4>2. at = "refill" => queued # Nil
        BY <2>5
      <4>3. CASE at = "nap"
        BY <2>5, <4>3, AccountDoes
      <4>4. CASE at # "nap" /\ ~ broken
        <5>1. at \in {"refill", "drain", "connect", "start", "ended"}
          BY <4>1, <4>4 DEF Control, TypeOK
        <5> QED
          BY <4>1, <4>2, <4>4, <5>1 DEF Control, Waiting
      <4> QED
        BY <4>3, <4>4
    <3> QED
      BY <2>1, <2>5, <3>2, <3>3, <3>4, <3>5 DEF StreamLoses
  <2>6. CASE arrived' = arrived /\ (queued' = queued \/ (queued = Nil /\ queued' = False)) /\ UNCHANGED lostVars
    <3>1. InHand' = InHand
      BY <1>6, <2>6, ReceiveDoes, Values DEF InHand
    <3> QED
      BY <2>1, <2>6, <3>1, Unmoved
  <2>7. \/ arrived' = << >> /\ Account /\ (queued = Nil => queued' = Packet(arrived))
        \/ /\ arrived' = arrived /\ UNCHANGED lostVars
           /\ queued' = queued \/ (queued = Nil /\ queued' = False)
    BY <1>6, ReceiveDoes
  <2>8. Account /\ at = "refill" /\ queued = Nil => UNCHANGED lostVars
    BY AccountDoes
  <2> QED
    BY <2>4, <2>5, <2>6, <2>7, <2>8
<1>7. CASE Writable /\ Handled /\ UNCHANGED lostVars
  BY <1>7, WritableDoes, Unmoved, Values DEF peerVars, sockVars, readVars, InHand
<1>8. CASE RunStep
  <2>0. peerSent' = peerSent /\ arrived' = arrived /\ UNCHANGED lostVars
    BY <1>8 DEF RunStep, peerVars, sockVars
  <2>1. CASE Start
    BY <2>0, <2>1, Unmoved, Values DEF Start, Resumed, readVars, InHand, Control
  <2>2. CASE ConnectDone
    BY <2>0, <2>2, Unmoved DEF ConnectDone, Resumed, readVars, InHand, Control
  <2>3. CASE Refilled
    <3>1. used' = used /\ InHand = queued.bytes /\ InHand' = << >> /\ readbuf # Nil
      BY <2>3, RefilledDoes DEF InHand, Ending
    <3>2. CASE readbuf' = readbuf /\ queued.kind # "data"
      BY <2>0, <3>1, <3>2, Unmoved DEF InHand, Control
    <3>3. CASE readbuf' = readbuf \o queued.bytes
      <4>1. readbuf \o InHand \in Seq(Nat) /\ readbuf' = readbuf \o InHand
        BY <1>0, <3>1, <3>3
      <4>2. Bytes(readbuf) = readbuf /\ Bytes(readbuf)' = readbuf \o InHand
        BY <3>1, <4>1, Values DEF Bytes
      <4>3. (used \o (readbuf \o InHand)) \o << >> = (used \o readbuf) \o InHand
        <5>1. readbuf \in Seq(Nat) /\ used \in Seq(Nat) /\ InHand \in Seq(Nat)
          BY <1>0, <3>1
        <5>2. (used \o readbuf) \o InHand = used \o (readbuf \o InHand)
              /\ (used \o readbuf) \o InHand \in Seq(Nat)
          BY <5>1, Regroup
        <5> QED
          BY <5>2, ConcatEmptySeq
      <4>4. Received' = Received
        BY <3>1, <4>2, <4>3 DEF Received
      <4> QED
        BY <2>0, <4>4 DEF StreamStays
    <3> QED
      BY <2>3, <3>2, <3>3, RefilledDoes
  <2>4. CASE DrainOn
    BY <2>0, <2>4, Unmoved DEF DrainOn, Resumed, readVars, InHand
  <2>5. CASE EndRun
    BY <2>0, <2>5, Unmoved DEF EndRun, readVars, InHand
  <2>6. CASE WakeUp
    BY <2>0, <2>6, Unmoved DEF WakeUp, Resumed, readVars, InHand
  <2> QED
    BY <1>8, <2>1, <2>2, <2>3, <2>4, <2>5, <2>6 DEF RunStep
<1>9. CASE CoStep
  <2>0. peerSent' = peerSent /\ UNCHANGED lostVars
    BY <1>9 DEF CoStep, peerVars
  <2>1. CASE LookAtBuffer
    <3>1. PICK look :
             /\ look = Try(format, readbuf, rpos, eof, tried)
             /\ readbuf' = look.buf /\ used' = used \o look.used
             /\ loop = "co" /\ at = "read"
             /\ UNCHANGED <<sockVars, queued>>
      BY <2>1, LookDoes
    <3>2. LookKeeps(DOMAIN Is, look)
      BY <3>1, LookTyped
    <3>3. look.used \in Seq(Nat) /\ Bytes(look.buf) \in Seq(Nat) /\ look.used \o Bytes(look.buf) = Bytes(readbuf)
      BY <3>2, Values DEF LookKeeps, InBytes, Bytes
    <3>4. used \o Bytes(readbuf) = (used \o look.used) \o Bytes(look.buf)
      <4> DEFINE b == Bytes(look.buf)
      <4> HIDE DEF b
      <4>0. used \in Seq(Nat) /\ look.used \in Seq(Nat) /\ b \in Seq(Nat)
        BY <1>0, <3>3 DEF b
      <4>1. (used \o look.used) \o b = used \o (look.used \o b)
        BY <4>0, Regroup
      <4> QED
        BY <3>3, <4>1 DEF b
    <3>5. Received' = Received /\ arrived' = arrived
      BY <2>1, <3>1, <3>4, LookDoes DEF Control, Received, sockVars, InHand, Bytes
    <3> QED
      BY <2>0, <3>5 DEF StreamStays
  <2>2. CASE Ioing \/ Nap \/ Close \/ SendFails \/ CloseSocket
    BY <2>0, <2>2, <1>9, Unmoved
       DEF Ioing, SetTimer, Read, Write, Mode, Flush, StartDrain, Does, Go, Close, SendFails,
           NotDrained, CloseSocket, EndSocket, Nap, Yield, sockVars, readVars, InHand
  <2>3. CASE SendAll \/ SendSome
    BY <2>0, <2>3, Unmoved
       DEF SendAll, Drained, Go, SendSome, Does, Yield, readVars, InHand, TypeOK, ConnectionTypeOK
  <2> QED
    BY <1>9, <2>1, <2>2, <2>3 DEF CoStep
<1>10. CASE UNCHANGED vars
  BY <1>10, Unmoved DEF vars, connVars, peerVars, sockVars, loopVars, readVars, InHand
<1> QED
  BY <1>1, <1>2, <1>3, <1>4, <1>5, <1>6, <1>7, <1>8, <1>9, <1>10 DEF Next, Environment, Program, LoopStep, Handle, Aside, Handled

\* Of a stream in order each byte is in one place only.
LEMMA RangeOfBoth ==
  ASSUME NEW a \in Seq(Nat), NEW b \in Seq(Nat), Increasing(a \o b)
  PROVE  Range(a \o b) = Range(a) \cup Range(b) /\ Range(a) \cap Range(b) = {}
<1> DEFINE c == a \o b
<1>1. /\ Len(a) \in Nat /\ Len(b) \in Nat /\ DOMAIN a = 1 .. Len(a) /\ DOMAIN b = 1 .. Len(b)
      /\ DOMAIN c = 1 .. Len(a) + Len(b)
      /\ \A k \in 1 .. Len(a) + Len(b) : c[k] = IF k <= Len(a) THEN a[k] ELSE b[k - Len(a)]
  BY ConcatProperties
<1>2. \A j, k \in DOMAIN c : j < k => c[j] < c[k]
  BY DEF Increasing
<1> HIDE DEF c
<1>3. \A k \in 1 .. Len(a) : k \in DOMAIN c /\ c[k] = a[k]
  BY <1>1
<1>4. \A k \in 1 .. Len(b) : Len(a) + k \in DOMAIN c /\ c[Len(a) + k] = b[k]
  <2> SUFFICES ASSUME NEW k \in 1 .. Len(b) PROVE Len(a) + k \in DOMAIN c /\ c[Len(a) + k] = b[k]
    OBVIOUS
  <2>1. /\ Len(a) + k \in 1 .. Len(a) + Len(b) /\ ~ (Len(a) + k <= Len(a))
        /\ (Len(a) + k) - Len(a) = k
    BY <1>1
  <2> QED
    BY <1>1, <2>1
<1>5. \A k \in DOMAIN c : \/ k \in 1 .. Len(a)
                          \/ k - Len(a) \in 1 .. Len(b) /\ c[k] = b[k - Len(a)]
  BY <1>1
<1>6. Range(c) = Range(a) \cup Range(b)
  <2>1. ASSUME NEW x \in Range(c) PROVE x \in Range(a) \cup Range(b)
    <3>1. PICK k \in DOMAIN c : x = c[k]
      BY DEF Range
    <3>2. CASE k \in 1 .. Len(a)
      BY <1>1, <1>3, <3>1, <3>2 DEF Range
    <3>3. CASE k - Len(a) \in 1 .. Len(b) /\ c[k] = b[k - Len(a)]
      BY <1>1, <3>1, <3>3 DEF Range
    <3> QED
      BY <1>5, <3>2, <3>3
  <2>2. ASSUME NEW x \in Range(a) PROVE x \in Range(c)
    BY <1>1, <1>3 DEF Range
  <2>3. ASSUME NEW x \in Range(b) PROVE x \in Range(c)
    <3>1. PICK k \in 1 .. Len(b) : x = b[k]
      BY <1>1 DEF Range
    <3> QED
      BY <1>4, <3>1 DEF Range
  <2> QED
    BY <2>1, <2>2, <2>3
<1>7. ASSUME NEW x \in Range(a), x \in Range(b) PROVE FALSE
  <2>1. PICK j \in 1 .. Len(a) : x = a[j]
    BY <1>1 DEF Range
  <2>2. PICK k \in 1 .. Len(b) : x = b[k]
    BY <1>1, <1>7 DEF Range
  <2>3. j \in DOMAIN c /\ Len(a) + k \in DOMAIN c /\ c[j] = x /\ c[Len(a) + k] = x
    BY <1>3, <1>4, <2>1, <2>2
  <2>4. j < Len(a) + k
    BY <1>1
  <2>5. x < x /\ x \in Nat
    BY <1>2, <2>1, <2>3, <2>4
  <2> QED
    BY <2>5
<1> QED
  BY <1>6, <1>7 DEF c

LEMMA RangeAppended ==
  ASSUME NEW a \in Seq(Nat), NEW x \in Nat
  PROVE  Range(Append(a, x)) = Range(a) \cup {x}
<1> DEFINE c == Append(a, x)
<1>1. /\ Len(a) \in Nat /\ DOMAIN a = 1 .. Len(a) /\ DOMAIN c = 1 .. Len(a) + 1
      /\ c[Len(a) + 1] = x /\ \A k \in 1 .. Len(a) : c[k] = a[k]
  OBVIOUS
<1> HIDE DEF c
<1>2. ASSUME NEW y \in Range(c) PROVE y \in Range(a) \cup {x}
  <2>1. PICK k \in 1 .. Len(a) + 1 : y = c[k]
    BY <1>1 DEF Range
  <2>2. k \in 1 .. Len(a) \/ k = Len(a) + 1
    BY <1>1
  <2> QED
    BY <1>1, <2>1, <2>2 DEF Range
<1>3. ASSUME NEW y \in Range(a) PROVE y \in Range(c)
  <2>1. PICK k \in 1 .. Len(a) : y = a[k]
    BY <1>1 DEF Range
  <2>2. k \in DOMAIN c
    BY <1>1
  <2> QED
    BY <1>1, <2>1, <2>2 DEF Range
<1>4. x \in Range(c)
  <2>1. Len(a) + 1 \in DOMAIN c
    BY <1>1
  <2> QED
    BY <1>1, <2>1 DEF Range
<1> QED
  BY <1>2, <1>3, <1>4 DEF c

\* The order is kept, and what is lost is accounted for.
LEMMA KeptStep ==
  ASSUME TcpAssumption, TypeOK, Control, Ending, Waiting, Kept, [Next]_vars PROVE Kept'
<1> USE Parts DEF Kept
<1>1. CASE StreamStays
  BY <1>1 DEF StreamStays, Ordered, lostVars
<1>2. CASE StreamGrows
  <2>1. Ordered(Append(Received \o arrived, peerSent + 1), peerSent + 1)
    BY OrderedNext
  <2>2. Ordered(Received \o arrived, peerSent)'
    BY <1>2, <2>1 DEF StreamGrows, Ordered
  <2>3. 1 .. peerSent \subseteq 1 .. peerSent' /\ UNCHANGED <<overslept, dropped>>
    BY <1>2 DEF StreamGrows, lostVars
  <2> QED
    BY <2>2, <2>3
<1>3. CASE StreamLoses
  <2> DEFINE none == << >>
  <2>1. none \in Seq(Nat) /\ arrived \o none = arrived /\ Received \o none = Received
    BY ConcatEmptySeq
  <2>2. Ordered(Received \o (arrived \o none), peerSent)
    BY <2>1
  <2> HIDE DEF none
  <2>3. Ordered(Received \o none, peerSent)
    BY <2>1, <2>2, OrderedWithout
  <2>4. Ordered(Received, peerSent)
    BY <2>1, <2>3
  <2>5. Range(arrived) \subseteq 1 .. peerSent
    <3>1. Increasing(Received \o arrived) /\ \A k \in 1 .. Len(Received \o arrived) : (Received \o arrived)[k] \in 1 .. peerSent
      BY DEF Ordered
    <3>2. Range(Received \o arrived) \subseteq 1 .. peerSent
      BY <3>1 DEF Range
    <3> QED
      BY <3>1, <3>2, RangeOfBoth
  <2> QED
    BY <1>3, <2>4, <2>5 DEF StreamLoses, Ordered
<1> QED
  BY <1>1, <1>2, <1>3, StreamStep

LEMMA NothingLostStep ==
  ASSUME TcpAssumption, TypeOK, Control, Ending, Waiting, Kept, NothingLost, [Next]_vars PROVE NothingLost'
<1> DEFINE lost == overslept \cup dropped
<1>0. Range(Received \o arrived) = (1 .. peerSent) \ lost /\ lost \subseteq 1 .. peerSent
      /\ (dropped # {} => broken) /\ (broken => broken')
      /\ Received \in Seq(Nat) /\ arrived \in Seq(Nat) /\ Increasing(Received \o arrived)
      /\ Received \o arrived \in Seq(Nat) /\ peerSent \in Nat
  BY BrokenStays, Parts DEF NothingLost, Kept, Ordered
<1>1. CASE StreamStays
  BY <1>0, <1>1 DEF StreamStays, NothingLost, lostVars
<1>2. CASE StreamGrows
  <2>1. Range(Append(Received \o arrived, peerSent + 1)) = Range(Received \o arrived) \cup {peerSent + 1}
    <3>1. Received \o arrived \in Seq(Nat) /\ peerSent + 1 \in Nat
      BY <1>0
    <3> QED
      BY <3>1, RangeAppended, Zenon
  <2>2. peerSent + 1 \notin lost /\ 1 .. peerSent + 1 = (1 .. peerSent) \cup {peerSent + 1}
    BY <1>0
  <2>3. Range(Append(Received \o arrived, peerSent + 1)) = (1 .. peerSent + 1) \ lost
    BY <1>0, <2>1, <2>2
  <2> QED
    BY <1>0, <1>2, <2>3 DEF StreamGrows, NothingLost, lostVars
<1>3. CASE StreamLoses
  <2>1. Range(Received) = Range(Received \o arrived) \ Range(arrived)
    BY <1>0, RangeOfBoth
  <2>2. Range(Received) = (1 .. peerSent) \ (lost \cup Range(arrived))
    BY <1>0, <2>1
  <2> QED
    BY <1>0, <1>3, <2>2 DEF StreamLoses, NothingLost
<1> QED
  BY <1>1, <1>2, <1>3, StreamStep

-----------------------------------------------------------------------------
(* Types.                                                                  *)

LEMMA FlagsStep ==
  ASSUME TcpAssumption, {fin, armed, eof, tried, broken} \subseteq BOOLEAN, [Next]_vars
  PROVE  {fin', armed', eof', tried', broken'} \subseteq BOOLEAN
<1>0. /\ fin \in BOOLEAN /\ armed \in BOOLEAN /\ eof \in BOOLEAN /\ tried \in BOOLEAN
      /\ broken \in BOOLEAN
  BY Zenon
<1>1. CASE Peer
  BY <1>0, <1>1, Zenon DEF Peer, LinkUp, LinkDown, PeerSends, PeerShuts, PeerReads, loopVars, readVars
<1>2. CASE TimerDue /\ Aside
  BY <1>0, <1>2, Zenon DEF TimerDue, Aside, peerVars, readVars
<1>3. CASE (NoTimerDue \/ Wait) /\ Aside
  BY <1>0, <1>3, Zenon DEF NoTimerDue, Wait, Aside, peerVars, readVars
<1>4. CASE (Hangup \/ Writable) /\ Handled
  BY <1>0, <1>4, Zenon DEF Hangup, Writable, Handled, peerVars, readVars
<1>5. CASE Receive /\ Handled
  BY <1>0, <1>5, Zenon DEF Receive, Handled, peerVars, readVars
<1>6. CASE RunStep
  BY <1>0, <1>6, Zenon DEF RunStep, Start, ConnectDone, Refilled, DrainOn, WakeUp, EndRun, peerVars, readVars
<1>7. CASE CoStep
  <2>0. UNCHANGED <<fin, broken, eof>>
    BY <1>7, Zenon DEF CoStep, Ioing, SetTimer, Read, Write, Mode, Flush, StartDrain, Go, LookAtBuffer, Look,
       Yield, Close, SendAll, Drained, SendSome, SendFails, NotDrained, CloseSocket, EndSocket, Nap, peerVars
  <2>1. CASE SetTimer \/ Read
    BY <1>0, <2>0, <2>1, Zenon DEF SetTimer, Read, Go, readVars
  <2>2. CASE ~ (SetTimer \/ Read)
    BY <1>0, <2>0, <2>2, <1>7, Zenon DEF CoStep, Ioing, Write, Mode, Flush, StartDrain, Go, LookAtBuffer, Look,
       Yield, Close, SendAll, Drained, SendSome, SendFails, NotDrained, CloseSocket, EndSocket, Nap, readVars
  <2> QED
    BY <2>1, <2>2
<1>8. CASE UNCHANGED vars
  BY <1>0, <1>8, Zenon DEF vars, connVars, peerVars, loopVars, readVars
<1> QED
  BY <1>1, <1>2, <1>3, <1>4, <1>5, <1>6, <1>7, <1>8, Zenon DEF Next, Environment, Program, LoopStep, Handle, Aside, Handled

\* What SMT is asked of TypeOK: all of it but the flags and rpos.
Places ==
  /\ link \in {"connecting", "up", "down"}
  /\ peerSent \in 0 .. Len(Coming)
  /\ want \in {"r", "w", "none"}
  /\ loop \in {"timers", "wait", "hangup", "read", "write", "run", "co"}
  /\ at \in {"start", "connect", "nap", "app", "read", "refill", "mode", "send", "drain", "close", "ended"}
  /\ format \in Formats /\ mode \in Modes
  /\ then \in {"app", "mode", "close"}
ComingIn ==
  /\ queued = Nil \/ queued \in [kind : {"data", "true", "false", "nil"}, bytes : InBytes]
  /\ readbuf = Nil \/ readbuf \in InBytes
  /\ arrived \in InBytes /\ used \in InBytes
GoingOut ==
  /\ writebuf \in OutBytes /\ piece \in OutBytes
  /\ leaving \in OutBytes /\ peerGot \in OutBytes
  /\ unit \in 0 .. Len(writebuf) /\ written \in 0 .. Out
Flags == {fin, armed, eof, tried, broken} \subseteq BOOLEAN
Position == rpos \in 1 .. Len(Is) + 1
Losses == overslept \subseteq DOMAIN Is /\ dropped \subseteq DOMAIN Is

LEMMA TypeParts == TypeOK <=> Places /\ ComingIn /\ GoingOut /\ Flags /\ Position /\ Losses
BY Zenon DEF TypeOK, ConnectionTypeOK, Places, ComingIn, GoingOut, Flags, Position, Losses

LEMMA PlacesStep ==
  ASSUME TcpAssumption, TypeOK, [Next]_vars PROVE Places'
<1>0. Places /\ Len(Coming) \in Nat
  <2>1. Coming = [k \in 1 .. Len(Is) |-> k] /\ Len(Is) \in Nat
    BY DEF TcpAssumption, ConnectionAssumption
  <2> QED
    BY <2>1, TypeParts
<1>1. CASE Peer
  BY <1>0, <1>1 DEF Places, Peer, LinkUp, LinkDown, PeerSends, PeerShuts, PeerReads, loopVars, readVars, writeVars
<1>2. CASE TimerDue /\ Aside
  BY <1>0, <1>2, TimerDueDoes DEF Places, peerVars, readVars, writeVars
<1>3. CASE NoTimerDue /\ Aside
  BY <1>0, <1>3 DEF Places, NoTimerDue, Aside, GoTo, peerVars, readVars, writeVars
<1>4. CASE Wait /\ Aside
  BY <1>0, <1>4, WaitDoes DEF Places, peerVars, readVars, writeVars
<1>5. CASE Handle
  BY <1>0, <1>5 DEF Places, Handle, Hangup, Receive, Writable, GoTo, BackToReading, peerVars, readVars, writeVars
<1>6. CASE RunStep
  BY <1>0, <1>6 DEF Places, RunStep, Start, ConnectDone, Refilled, DrainOn, WakeUp, EndRun, Resumed, GoTo,
                    peerVars, readVars, writeVars
<1>7. CASE CoStep
  <2>0. UNCHANGED <<link, peerSent>>
    BY <1>7 DEF CoStep, peerVars
  <2>1. CASE SetTimer \/ Read \/ Write \/ Mode \/ Flush
    BY <1>0, <2>0, <2>1 DEF Places, SetTimer, Read, Write, Mode, Flush, StartDrain, Does, Go, readVars, writeVars
  <2>2. CASE LookAtBuffer
    BY <1>0, <2>0, <2>2, LookDoes DEF Places, writeVars
  <2>3. CASE Nap \/ Close \/ SendAll \/ SendSome \/ SendFails \/ CloseSocket
    BY <1>0, <2>0, <2>3 DEF Places, Close, StartDrain, SendAll, Drained, SendSome, SendFails, NotDrained,
                            CloseSocket, EndSocket, Nap, Go, Yield, GoTo, readVars, writeVars
  <2> QED
    BY <1>7, <2>1, <2>2, <2>3 DEF CoStep, Ioing
<1>8. CASE UNCHANGED vars
  BY <1>0, <1>8 DEF Places, vars, connVars, peerVars, loopVars, readVars, writeVars
<1> QED
  BY <1>1, <1>2, <1>3, <1>4, <1>5, <1>6, <1>7, <1>8 DEF Next, Environment, Program, LoopStep, Aside

LEMMA ComingInStep ==
  ASSUME TcpAssumption, TypeOK, Ending, [Next]_vars PROVE ComingIn'
<1>0. /\ queued = Nil \/ queued \in [kind : {"data", "true", "false", "nil"}, bytes : InBytes]
      /\ readbuf = Nil \/ readbuf \in InBytes
      /\ arrived \in InBytes /\ used \in InBytes /\ << >> \in InBytes
  BY TypeParts DEF ComingIn, InBytes
<1>1. CASE Peer
  <2>1. UNCHANGED <<queued, readbuf, used>>
    BY <1>1 DEF Peer, loopVars, readVars
  <2>2. CASE PeerSends
    <3>1. Coming = [k \in 1 .. Len(Is) |-> k] /\ Len(Is) \in Nat /\ DOMAIN Is = 1 .. Len(Is)
      BY DEF TcpAssumption, ConnectionAssumption
    <3>2. Len(Coming) = Len(Is)
      BY <3>1
    <3>3. peerSent \in 0 .. Len(Is) - 1 /\ arrived' = Append(arrived, Coming[peerSent + 1])
      BY <2>2, <3>1, <3>2 DEF PeerSends, TypeOK, ConnectionTypeOK
    <3>4. Coming[peerSent + 1] \in DOMAIN Is
      BY <3>1, <3>3
    <3>5. arrived' \in InBytes
      BY <1>0, <3>3, <3>4 DEF InBytes
    <3> QED
      BY <1>0, <2>1, <3>5 DEF ComingIn
  <2>3. CASE LinkUp \/ LinkDown \/ PeerShuts \/ PeerReads
    BY <1>0, <2>1, <2>3 DEF ComingIn, LinkUp, LinkDown, PeerShuts, PeerReads, sockVars
  <2> QED
    BY <1>1, <2>2, <2>3 DEF Peer
<1>2. CASE TimerDue /\ Aside
  BY <1>0, <1>2, TimerDueDoes DEF ComingIn, False, Value, sockVars, readVars
<1>3. CASE (NoTimerDue \/ Wait) /\ Aside
  BY <1>0, <1>3 DEF ComingIn, NoTimerDue, Wait, Aside, sockVars, readVars
<1>4. CASE Hangup /\ Handled
  BY <1>0, <1>4, HangupDoes DEF ComingIn, Packet, Value, sockVars, readVars
<1>5. CASE Receive /\ Handled
  BY <1>0, <1>5, ReceiveDoes DEF ComingIn, Packet, False, Value, sockVars, readVars
<1>6. CASE Writable /\ Handled
  BY <1>0, <1>6, WritableDoes DEF ComingIn, True, Value, sockVars, readVars
<1>7. CASE RunStep
  <2>1. CASE Refilled
    <3>1. readbuf \in InBytes /\ queued.bytes \in InBytes
      BY <1>0, <2>1, RefilledDoes DEF Ending
    <3>2. readbuf \o queued.bytes \in InBytes
      BY <3>1 DEF InBytes
    <3> QED
      BY <1>0, <1>7, <2>1, <3>2, RefilledDoes DEF RunStep, ComingIn, sockVars
  <2>2. CASE Start \/ ConnectDone \/ DrainOn \/ WakeUp \/ EndRun
    BY <1>0, <1>7, <2>2 DEF ComingIn, RunStep, Start, ConnectDone, DrainOn, WakeUp, EndRun, Resumed, sockVars, readVars
  <2> QED
    BY <1>7, <2>1, <2>2 DEF RunStep
<1>8. CASE CoStep
  <2>1. CASE LookAtBuffer
    <3>1. PICK look :
             /\ look = Try(format, readbuf, rpos, eof, tried)
             /\ readbuf' = look.buf /\ used' = used \o look.used
             /\ loop = "co" /\ at = "read"
             /\ UNCHANGED <<sockVars, queued>>
      BY <2>1, LookDoes
    <3>2. look.used \in InBytes /\ (look.buf = Nil \/ look.buf \in InBytes)
      BY <3>1, LookTyped DEF LookKeeps, InBytes
    <3>3. used \o look.used \in InBytes
      BY <1>0, <3>2 DEF InBytes
    <3> QED
      BY <1>0, <3>1, <3>2, <3>3 DEF ComingIn, sockVars
  <2>2. CASE Ioing \/ Nap \/ Close \/ SendFails \/ CloseSocket
    BY <1>0, <2>2
       DEF ComingIn, Ioing, SetTimer, Read, Write, Mode, Flush, StartDrain, Does, Go, Close, SendFails,
           NotDrained, CloseSocket, EndSocket, Nap, Yield, sockVars, readVars
  <2>3. CASE SendAll \/ SendSome
    BY <1>0, <2>3 DEF ComingIn, SendAll, Drained, Go, SendSome, Yield, readVars
  <2> QED
    BY <1>8, <2>1, <2>2, <2>3 DEF CoStep
<1>9. CASE UNCHANGED vars
  BY <1>0, <1>9 DEF ComingIn, vars, connVars, sockVars, loopVars, readVars
<1> QED
  BY <1>1, <1>2, <1>3, <1>4, <1>5, <1>6, <1>7, <1>8, <1>9 DEF Next, Environment, Program, LoopStep, Handle, Aside, Handled

LEMMA GoingOutStep ==
  ASSUME TcpAssumption, TypeOK, Control, Sending, [Next]_vars PROVE GoingOut'
<1>0. /\ writebuf \in Seq(1 .. Out) /\ piece \in Seq(1 .. Out)
      /\ leaving \in Seq(1 .. Out) /\ peerGot \in Seq(1 .. Out)
      /\ unit \in 0 .. Len(writebuf) /\ written \in 0 .. Out
      /\ Out \in Nat /\ Window \in Nat
  BY TypeParts DEF GoingOut, OutBytes, TcpAssumption, ConnectionAssumption
<1>a. ASSUME writebuf' = writebuf, unit' = unit, UNCHANGED <<piece, leaving, peerGot, written>> PROVE GoingOut'
  BY <1>0, <1>a DEF GoingOut, OutBytes
<1>1. CASE Peer
  <2>1. UNCHANGED <<writebuf, piece, unit, written>>
    BY <1>1 DEF Peer, writeVars
  <2>2. leaving' \in Seq(1 .. Out) /\ peerGot' \in Seq(1 .. Out)
    <3>1. CASE PeerReads
      <4>1. Head(leaving) \in 1 .. Out /\ Tail(leaving) \in Seq(1 .. Out)
        BY <1>0, <3>1 DEF PeerReads
      <4>2. Append(peerGot, Head(leaving)) \in Seq(1 .. Out)
        BY <1>0, <4>1
      <4> QED
        BY <3>1, <4>1, <4>2 DEF PeerReads
    <3>2. CASE LinkDown
      <4>1. << >> \in Seq(1 .. Out)
        OBVIOUS
      <4> QED
        BY <1>0, <3>2, <4>1 DEF LinkDown
    <3>3. CASE LinkUp \/ PeerSends \/ PeerShuts
      BY <1>0, <3>3 DEF LinkUp, PeerSends, PeerShuts, sockVars
    <3> QED
      BY <1>1, <3>1, <3>2, <3>3 DEF Peer
  <2> QED
    BY <1>0, <2>1, <2>2 DEF GoingOut, OutBytes
<1>2. CASE LoopStep \/ Handle \/ RunStep \/ UNCHANGED vars
  BY <1>a, <1>2 DEF LoopStep, Handle, RunStep, Start, ConnectDone, Refilled, DrainOn, WakeUp, EndRun,
                    vars, connVars, peerVars, sockVars, writeVars
<1>3. CASE CoStep
  <2>0. peerGot' = peerGot
    BY <1>3 DEF CoStep, peerVars
  <2>1. CASE SetTimer \/ Read
    BY <1>a, <2>0, <2>1 DEF SetTimer, Read, sockVars, writeVars
  <2>2. CASE LookAtBuffer
    BY <1>a, <2>0, <2>2, LookDoes DEF sockVars, writeVars
  <2>3. CASE Write
    <3>1. PICK n \in 1 .. Out - written :
             /\ writebuf' = writebuf \o [k \in 1 .. n |-> written + k]
             /\ written' = written + n
      BY <2>3 DEF Write
    <3>2. [k \in 1 .. n |-> written + k] \in Seq(1 .. Out) /\ Len([k \in 1 .. n |-> written + k]) = n
      BY <1>0
    <3> DEFINE more == [k \in 1 .. n |-> written + k]
    <3> HIDE DEF more
    <3>3. writebuf \o more \in Seq(1 .. Out) /\ Len(writebuf \o more) = Len(writebuf) + n
      BY <1>0, <3>2, ConcatProperties DEF more
    <3>4. UNCHANGED <<leaving, piece, unit>>
      BY <2>3 DEF Write, sockVars
    <3> QED
      BY <1>0, <2>0, <3>1, <3>3, <3>4 DEF GoingOut, OutBytes, more
  <2>4. CASE Mode
    <3> DEFINE bytes == Piece(mode, WSize, writebuf)
    <3>1. CASE bytes = Nil
      BY <1>a, <2>0, <2>4, <3>1 DEF Mode, sockVars
    <3>2. CASE bytes # Nil
      <4>1. PICK n \in 0 .. Len(writebuf) : bytes = Take(writebuf, n)
        BY <3>2, FrontOfBuffer
      <4>2. piece' = bytes /\ unit' = Len(bytes) /\ UNCHANGED <<leaving, writebuf, written>>
        BY <2>4, <3>2 DEF Mode, StartDrain, sockVars
      <4>3. bytes \in Seq(1 .. Out) /\ Len(bytes) = n
        BY <1>0, <4>1, TakeDrop
      <4> QED
        BY <1>0, <2>0, <4>2, <4>3 DEF GoingOut, OutBytes
    <3> QED
      BY <3>1, <3>2
  <2>5. CASE Flush
    BY <1>0, <2>0, <2>5 DEF GoingOut, OutBytes, Flush, StartDrain, sockVars
  <2>6. CASE Close
    <3>1. CASE writebuf = << >>
      BY <1>a, <2>0, <2>6, <3>1 DEF Close, sockVars
    <3>2. CASE writebuf # << >>
      BY <1>0, <2>0, <2>6, <3>2 DEF GoingOut, OutBytes, Close, StartDrain, sockVars
    <3> QED
      BY <3>1, <3>2
  <2>7. CASE SendAll
    <3>1. Drop(writebuf, unit) \in Seq(1 .. Out)
      BY <1>0, TakeDrop
    <3>2. leaving \o piece \in Seq(1 .. Out)
      BY <1>0
    <3> QED
      BY <1>0, <2>0, <2>7, <3>1, <3>2 DEF GoingOut, OutBytes, SendAll, Drained, DropUnit
  <2>8. CASE SendSome
    <3>1. Room \in 0 .. Len(piece)
      BY <1>0, <2>8 DEF SendSome, Room
    <3>2. Take(piece, Room) \in Seq(1 .. Out) /\ Drop(piece, Room) \in Seq(1 .. Out)
      BY <1>0, <3>1, TakeDrop
    <3> DEFINE some == Take(piece, Room)
    <3> HIDE DEF some
    <3>3. leaving \o some \in Seq(1 .. Out)
      BY <1>0, <3>2 DEF some
    <3> QED
      BY <1>0, <2>0, <2>8, <3>2, <3>3 DEF GoingOut, OutBytes, SendSome, some
  <2>9. CASE SendFails
    BY <1>0, <2>0, <2>9 DEF GoingOut, OutBytes, SendFails, NotDrained, sockVars
  <2>10. CASE CloseSocket \/ Nap
    BY <1>a, <2>0, <2>10 DEF CloseSocket, Nap, sockVars, writeVars
  <2> QED
    BY <1>3, <2>1, <2>2, <2>3, <2>4, <2>5, <2>6, <2>7, <2>8, <2>9, <2>10 DEF CoStep, Ioing
<1> QED
  BY <1>1, <1>2, <1>3 DEF Next, Environment, Program

\* rpos is a place in the buffer, or just behind it, whatever it was before.
LEMMA PositionStep ==
  ASSUME TcpAssumption, TypeOK, Control, Ending, Kept, [Next]_vars PROVE Position'
<1>0. rpos \in 1 .. Len(Is) + 1 /\ Len(Is) \in Nat
  BY TypeParts DEF Position, TcpAssumption, ConnectionAssumption
<1>1. CASE Peer \/ LoopStep \/ Handle \/ RunStep \/ UNCHANGED vars
  BY <1>0, <1>1 DEF Position, Peer, LoopStep, Handle, RunStep, Start, ConnectDone, Refilled, DrainOn, WakeUp, EndRun,
                    vars, connVars, readVars
<1>2. CASE LookAtBuffer
  <2>1. PICK look : look = Try(format, readbuf, rpos, eof, tried) /\ rpos' = look.rpos /\ at = "read"
    BY <1>2, LookDoes
  <2>2. look.rpos \in {rpos, 1} \/ (readbuf # Nil /\ look.rpos = Len(readbuf) + 1)
    BY <2>1, LookTyped DEF LookKeeps
  <2>3. readbuf # Nil => Len(readbuf) \in Nat /\ Len(readbuf) <= Len(Is)
    BY BufferFits
  <2> QED
    BY <1>0, <2>1, <2>2, <2>3 DEF Position
<1>3. CASE CoStep /\ ~ LookAtBuffer
  BY <1>0, <1>3 DEF Position, CoStep, Ioing, SetTimer, Read, Write, Mode, Flush, Close, SendAll, SendSome,
                    SendFails, CloseSocket, Nap, readVars
<1> QED
  BY <1>1, <1>2, <1>3 DEF Next, Environment, Program

LEMMA LossesStep ==
  ASSUME TcpAssumption, TypeOK, [Next]_vars PROVE Losses'
<1>0. overslept \subseteq DOMAIN Is /\ dropped \subseteq DOMAIN Is /\ Range(arrived) \subseteq DOMAIN Is
  BY TypeParts DEF Losses, ComingIn, InBytes, Range
<1>1. CASE UNCHANGED lostVars
  BY <1>0, <1>1 DEF Losses, lostVars
<1>2. CASE Receive /\ Handled
  BY <1>0, <1>2, ReceiveDoes, AccountDoes DEF Losses, lostVars
<1> QED
  BY <1>1, <1>2, Zenon DEF Next, Environment, Program, Handle, Handled, RunStep, CoStep, vars

LEMMA TypeStep ==
  ASSUME TcpAssumption, TypeOK, Control, Ending, Kept, Sending, [Next]_vars PROVE TypeOK'
<1>1. Flags'
  BY TypeParts, FlagsStep DEF Flags
<1>2. Places' /\ ComingIn' /\ GoingOut' /\ Position' /\ Losses'
  BY PlacesStep, ComingInStep, GoingOutStep, PositionStep, LossesStep
<1> QED
  BY <1>1, <1>2, Zenon DEF TypeOK, ConnectionTypeOK, Places, ComingIn, GoingOut, Flags, Position, Losses

-----------------------------------------------------------------------------
(* What the socket waits for.                                              *)

LEMMA WaitingStep ==
  ASSUME TcpAssumption, TypeOK, Control, Connecting, Ending, Waiting, [Next]_vars PROVE Waiting'
<1> SUFFICES ASSUME ~ broken' PROVE Waiting'
  BY DEF Waiting
<1>0. /\ ~ broken
      /\ loop = "co" => want = "r" \/ (eof /\ (at = "read" => ~ tried)) \/ at = "close"
      /\ at = "refill" => want = "r"
      /\ at = "nap" => want = "r" \/ eof
      /\ at = "drain" => /\ loop # "read"
                         /\ \/ want = "w" /\ (queued # Nil => eof)
                            \/ want = "r" /\ queued # Nil
  <2>1. ~ broken
    BY BrokenStays
  <2> QED
    BY <2>1 DEF Waiting
<1>1. CASE Peer
  <2>1. UNCHANGED <<want, loop, queued, at, eof, tried>> /\ InHand' = InHand
    BY <1>1 DEF Peer, loopVars, readVars, InHand
  <2> QED
    BY <1>0, <2>1 DEF Waiting
<1>2. CASE TimerDue /\ Aside
  <2>1. loop' = "wait" /\ at \in {"connect", "nap"} /\ UNCHANGED <<at, want, eof>>
    BY <1>2, TimerDueDoes
  <2> QED
    BY <1>0, <2>1 DEF Waiting
<1>3. CASE NoTimerDue /\ Aside
  BY <1>0, <1>3 DEF Waiting, NoTimerDue, Aside, GoTo, readVars, InHand
<1>4. CASE Wait /\ Aside
  <2>1. at = "drain" => want = "w"
    BY <1>0, <1>4, WaitDoes DEF Control
  <2> QED
    BY <1>0, <1>4, <2>1, WaitDoes DEF Waiting, readVars, InHand
<1>5. CASE Hangup /\ Handled
  BY <1>0, <1>5, HangupDoes, Values DEF Waiting, readVars, InHand
<1>6. CASE Receive /\ Handled
  BY <1>0, <1>6, ReceiveDoes DEF Waiting, Ending, readVars
<1>7. CASE Writable /\ Handled
  BY <1>0, <1>7, WritableDoes, Values DEF Waiting, readVars, InHand
<1>8. CASE RunStep
  <2>1. CASE Start
    BY <1>0, <2>1 DEF Waiting, Start, Resumed, GoTo, Control
  <2>2. CASE ConnectDone
    <3>1. loop = "run" /\ at = "connect" /\ queued # Nil /\ UNCHANGED <<want, eof>> /\ loop' = "co"
          /\ (at' = "close" \/ (at' = "app" /\ queued.kind # "false" /\ ~ eof))
      BY <2>2 DEF ConnectDone, Resumed, GoTo
    <3>2. CASE at' = "close"
      BY <3>1, <3>2 DEF Waiting
    <3>3. CASE at' = "app" /\ queued.kind # "false" /\ ~ eof
      <4>1. want = "r"
        BY <3>1, <3>3 DEF Control
      <4> QED
        BY <3>1, <3>3, <4>1 DEF Waiting
    <3> QED
      BY <3>1, <3>2, <3>3
  <2>3. CASE Refilled
    BY <1>0, <2>3, RefilledDoes DEF Waiting
  <2>4. CASE DrainOn
    BY <1>0, <2>4 DEF Waiting, DrainOn, Resumed, GoTo
  <2>5. CASE EndRun
    BY <1>0, <2>5 DEF Waiting, EndRun, GoTo, readVars, InHand
  <2>6. CASE WakeUp
    BY <1>0, <2>6 DEF Waiting, WakeUp, Resumed, GoTo, readVars, InHand
  <2> QED
    BY <1>8, <2>1, <2>2, <2>3, <2>4, <2>5, <2>6 DEF RunStep
<1>9. CASE CoStep
  <2>1. CASE LookAtBuffer
    <3>1. PICK look :
             /\ look = Try(format, readbuf, rpos, eof, tried)
             /\ loop = "co" /\ at = "read"
             /\ \/ look.more /\ at' = "refill" /\ loop' = "run"
                \/ ~ look.more /\ at' = "app" /\ loop' = loop
             /\ UNCHANGED <<want, eof, tried>>
      BY <2>1, LookDoes
    <3>2. look.more => ~ eof \/ tried
      BY <3>1, LookTyped DEF LookKeeps
    <3> QED
      BY <1>0, <3>1, <3>2 DEF Waiting
  <2>2. CASE SetTimer \/ Read \/ Write \/ Mode \/ Flush
    <3>1. want' = want /\ eof' = eof /\ at' \notin {"refill", "drain"} /\ loop' = loop /\ loop = "co"
          /\ (at' = "read" => ~ tried') /\ at # "close" /\ at # "read"
      BY <2>2, Zenon DEF SetTimer, Read, Write, Mode, Flush, StartDrain, Does, Go
    <3> QED
      BY <1>0, <3>1 DEF Waiting
  <2>3. CASE Close
    BY <1>0, <2>3 DEF Waiting, Close, StartDrain, Does, Go
  <2>4. CASE SendAll
    BY <1>0, <2>4 DEF Waiting, SendAll, Drained, Does, Go, TypeOK, ConnectionTypeOK
  <2>5. CASE SendSome
    <3>1. queued = Nil /\ queued' = queued /\ InHand' = << >>
      BY <2>5 DEF SendSome, Does, Yield, Control, InHand
    <3> QED
      BY <2>5, <3>1 DEF Waiting, SendSome, Yield, GoTo
  <2>6. CASE SendFails
    BY <1>0, <2>6 DEF Waiting, SendFails, NotDrained, Does, Go
  <2>7. CASE CloseSocket
    BY <2>7 DEF Waiting, CloseSocket, EndSocket, Does, Yield, GoTo
  <2>8. CASE Nap
    BY <1>0, <2>8 DEF Waiting, Nap, Does, Yield, GoTo
  <2> QED
    BY <1>9, <2>1, <2>2, <2>3, <2>4, <2>5, <2>6, <2>7, <2>8 DEF CoStep, Ioing
<1>10. CASE UNCHANGED vars
  BY <1>0, <1>10 DEF Waiting, vars, connVars, loopVars, readVars, InHand
<1> QED
  BY <1>1, <1>2, <1>3, <1>4, <1>5, <1>6, <1>7, <1>8, <1>9, <1>10 DEF Next, Environment, Program, LoopStep, Handle, Aside, Handled

-----------------------------------------------------------------------------
(* The bytes that go out.                                                  *)

LEMMA OutParts ==
  ASSUME TcpAssumption, TypeOK
  PROVE  /\ writebuf \in Seq(Nat) /\ piece \in Seq(Nat) /\ leaving \in Seq(Nat) /\ peerGot \in Seq(Nat)
         /\ unit \in Nat /\ unit <= Len(writebuf) /\ written \in Nat
         /\ Len(writebuf) \in Nat /\ Len(piece) \in Nat /\ Len(leaving) \in Nat /\ Window \in Nat
<1>1. /\ writebuf \in Seq(1 .. Out) /\ piece \in Seq(1 .. Out)
      /\ leaving \in Seq(1 .. Out) /\ peerGot \in Seq(1 .. Out)
      /\ unit \in 0 .. Len(writebuf) /\ written \in 0 .. Out
      /\ Out \in Nat /\ Window \in Nat
  BY TypeParts DEF GoingOut, OutBytes, TcpAssumption, ConnectionAssumption
<1>2. Seq(1 .. Out) \subseteq Seq(Nat)
  BY <1>1, SeqMonotonic
<1> QED
  BY <1>1, <1>2

\* What _drain() has left is the end of the unit, which is at the front of the buffer.
PieceKept == piece = SubSeq(writebuf, unit - Len(piece) + 1, unit) /\ Len(piece) <= unit

\* A unit has been started on.
LEMMA StartedKeeps ==
  ASSUME TcpAssumption, TypeOK, NEW n \in 0 .. Len(writebuf), piece' = Take(writebuf, n), unit' = Len(piece'),
         writebuf' = writebuf
  PROVE  PieceKept' /\ unit' - Len(piece') = 0
<1>1. piece' \in Seq(Nat) /\ Len(piece') = n
  BY OutParts, TakeDrop
<1>2. piece' = SubSeq(writebuf', 1, unit')
  BY <1>1 DEF Take
<1> QED
  BY <1>1, <1>2 DEF PieceKept

\* Nothing is being drained.
LEMMA IdleKeeps ==
  ASSUME piece' = << >>, unit' = 0, writebuf' \in Seq(Nat)
  PROVE  PieceKept'
BY DEF PieceKept

LEMMA WholeBuffer == ASSUME TcpAssumption, TypeOK PROVE Len(writebuf) \in 0 .. Len(writebuf)
                                         /\ Take(writebuf, Len(writebuf)) = writebuf
BY OutParts DEF Take

LEMMA PieceStep ==
  ASSUME TcpAssumption, TypeOK, Control, Sending, [Next]_vars PROVE PieceKept'
<1>0. PieceKept /\ (at \notin {"send", "drain"} => unit = 0 /\ piece = << >>)
  BY OutParts DEF Sending, PieceKept
<1>a. ASSUME UNCHANGED <<writebuf, piece, unit>> PROVE PieceKept'
  BY <1>0, <1>a DEF PieceKept
<1>1. CASE Peer \/ LoopStep \/ Handle \/ RunStep \/ UNCHANGED vars
  BY <1>a, <1>1 DEF Peer, LoopStep, Handle, RunStep, Start, ConnectDone, Refilled, DrainOn, WakeUp, EndRun,
                    vars, connVars, writeVars
<1>2. CASE SetTimer \/ Read \/ CloseSocket \/ Nap
  BY <1>a, <1>2 DEF SetTimer, Read, CloseSocket, Nap, writeVars
<1>3. CASE LookAtBuffer
  BY <1>a, <1>3, LookDoes DEF writeVars
<1>4. CASE Write
  <2>1. piece' = << >> /\ unit' = 0
    BY <1>0, <1>4 DEF Write, Does
  <2>2. PICK n \in 1 .. Out - written : writebuf' = writebuf \o [k \in 1 .. n |-> written + k]
    BY <1>4 DEF Write
  <2> DEFINE more == [k \in 1 .. n |-> written + k]
  <2>3. more \in Seq(Nat)
    BY OutParts
  <2> HIDE DEF more
  <2>4. writebuf \o more \in Seq(Nat)
    BY <2>3, OutParts
  <2> QED
    BY <2>1, <2>2, <2>4, IdleKeeps DEF more
<1>5. CASE Mode
  <2>1. CASE Piece(mode, WSize, writebuf) = Nil
    BY <1>a, <1>5, <2>1 DEF Mode
  <2>2. CASE Piece(mode, WSize, writebuf) # Nil
    <3>1. PICK n \in 0 .. Len(writebuf) : Piece(mode, WSize, writebuf) = Take(writebuf, n)
      BY <2>2, FrontOfBuffer
    <3> QED
      BY <1>5, <2>2, <3>1, StartedKeeps DEF Mode, StartDrain
  <2> QED
    BY <2>1, <2>2
<1>6. CASE Flush
  BY <1>6, WholeBuffer, StartedKeeps DEF Flush, StartDrain
<1>7. CASE Close
  <2>1. CASE writebuf = << >>
    BY <1>a, <1>7, <2>1 DEF Close
  <2>2. CASE writebuf # << >>
    BY <1>7, <2>2, WholeBuffer, StartedKeeps DEF Close, StartDrain
  <2> QED
    BY <2>1, <2>2
<1>8. CASE SendAll
  <2>1. Drop(writebuf, unit) \in Seq(Nat)
    BY OutParts, TakeDrop
  <2> QED
    BY <1>8, <2>1, IdleKeeps DEF SendAll, Drained, DropUnit
<1>9. CASE SendSome
  <2> DEFINE m == unit - Len(piece)
             n == m + Room
  <2>1. /\ m \in Nat /\ n \in Nat /\ m <= n /\ n <= unit /\ unit \in Nat /\ unit <= Len(writebuf)
        /\ writebuf \in Seq(Nat) /\ n - m = Room /\ Len(piece) = unit - m
    <3>1. Room \in Nat /\ Room < Len(piece)
      BY <1>9, OutParts DEF SendSome, Room
    <3>2. /\ Len(piece) \in Nat /\ unit \in Nat /\ Len(piece) <= unit /\ unit <= Len(writebuf)
          /\ Len(writebuf) \in Nat /\ writebuf \in Seq(Nat)
      BY <1>0, OutParts DEF PieceKept
    <3> QED
      BY <3>1, <3>2
  <2>2. piece = SubSeq(writebuf, m + 1, unit) /\ piece' = Drop(piece, Room)
        /\ writebuf' = writebuf /\ unit' = unit
    BY <1>0, <1>9 DEF SendSome, PieceKept
  <2> HIDE DEF m, n
  <2>3. Drop(SubSeq(writebuf, m + 1, unit), n - m) = SubSeq(writebuf, n + 1, unit)
    BY <2>1, PartDrop
  <2>4. piece' = SubSeq(writebuf, n + 1, unit)
    BY <2>1, <2>2, <2>3
  <2>5. Len(piece') = unit - n
    BY <2>1, <2>4
  <2>6. unit - Len(piece') = n /\ Len(piece') <= unit
    BY <2>1, <2>5
  <2> QED
    BY <2>2, <2>4, <2>6 DEF PieceKept
<1>10. CASE SendFails
  BY <1>10, OutParts, IdleKeeps DEF SendFails, NotDrained
<1> QED
  BY <1>1, <1>2, <1>3, <1>4, <1>5, <1>6, <1>7, <1>8, <1>9, <1>10 DEF Next, Environment, Program, CoStep, Ioing

\* There is room when the coroutine goes on draining.
Roomy ==
  ~ broken /\ link = "up" =>
    /\ at = "send" => Room > 0 \/ unit = Len(piece)
    /\ at = "drain" /\ queued # Nil => Room > 0
    /\ loop = "write" => Len(leaving) < Window

LEMMA RoomyStep ==
  ASSUME TcpAssumption, TypeOK, Control, Connecting, Waiting, Sending, [Next]_vars PROVE Roomy'
<1> SUFFICES ASSUME ~ broken', link' = "up" PROVE Roomy'
  BY DEF Roomy
<1>0. /\ ~ broken
      /\ link = "up" => /\ at = "send" => Room > 0 \/ unit = Len(piece)
                        /\ at = "drain" /\ queued # Nil => Room > 0
                        /\ loop = "write" => Len(leaving) < Window
      /\ Len(leaving) \in Nat /\ Window \in Nat
  <2>1. ~ broken
    BY BrokenStays
  <2> QED
    BY <2>1, OutParts DEF Sending
<1>1. CASE Peer
  <2>1. UNCHANGED <<at, queued, loop, unit, piece>>
    BY <1>1 DEF Peer, loopVars, writeVars
  <2>2. CASE LinkUp
    BY <2>1, <2>2 DEF LinkUp, Connecting, Roomy
  <2>3. CASE PeerReads
    <3>1. link = "up" /\ Len(leaving') = Len(leaving) - 1
      BY <2>3, OutParts DEF PeerReads
    <3>2. Room' = Room + 1 /\ Room \in Int
      BY <1>0, <3>1 DEF Room
    <3> QED
      BY <1>0, <2>1, <3>1, <3>2 DEF Roomy
  <2>4. CASE LinkDown \/ PeerSends \/ PeerShuts
    BY <1>0, <2>1, <2>4 DEF LinkDown, PeerSends, PeerShuts, sockVars, Room, Roomy
  <2> QED
    BY <1>1, <2>2, <2>3, <2>4 DEF Peer
<1>2. CASE TimerDue /\ Aside
  <2>1. loop' = "wait" /\ at \in {"connect", "nap"} /\ at' = at
    BY <1>2, TimerDueDoes DEF TypeOK
  <2> QED
    BY <2>1 DEF Roomy
<1>3. CASE NoTimerDue /\ Aside
  BY <1>0, <1>3 DEF NoTimerDue, Aside, GoTo, peerVars, sockVars, writeVars, Room, Roomy
<1>4. CASE Wait /\ Aside
  BY <1>0, <1>4, WaitDoes DEF peerVars, sockVars, writeVars, Room, Roomy
<1>5. CASE Hangup /\ Handled
  BY <1>5, HangupDoes DEF peerVars, Control
<1>6. CASE Receive /\ Handled
  BY <1>0, <1>6, ReceiveDoes DEF peerVars, writeVars, Room, Roomy, Waiting
<1>7. CASE Writable /\ Handled
  BY <1>0, <1>7, WritableDoes DEF peerVars, sockVars, writeVars, Room, Roomy
<1>8. CASE RunStep
  <2>0. UNCHANGED <<link, leaving>> /\ Room' = Room
    BY <1>8 DEF RunStep, peerVars, sockVars, Room
  <2>1. CASE DrainOn
    BY <1>0, <2>0, <2>1 DEF DrainOn, Resumed, GoTo, Roomy
  <2>2. CASE Start \/ ConnectDone \/ Refilled \/ WakeUp
    BY <2>2 DEF Start, ConnectDone, Refilled, WakeUp, Resumed, GoTo, Roomy
  <2>3. CASE EndRun
    BY <1>0, <2>0, <2>3 DEF EndRun, GoTo, writeVars, Roomy
  <2> QED
    BY <1>8, <2>1, <2>2, <2>3 DEF RunStep
<1>9. CASE CoStep
  <2>0. queued' = Nil /\ loop' # "write"
    BY <1>9, Zenon DEF CoStep, Ioing, SetTimer, Read, Write, Mode, Flush, StartDrain, Does, Go, GoTo,
       LookAtBuffer, Look, Yield, Close, SendAll, Drained, SendSome, SendFails, NotDrained, CloseSocket,
       EndSocket, Nap, Control
  <2>1. at' = "send" => unit' = Len(piece')
    <3>1. at' = "send" => Mode \/ Flush \/ Close
      BY <1>9 DEF CoStep, Ioing, SetTimer, Read, Write, Does, Go, LookAtBuffer, Look, Yield, SendAll, Drained,
         SendSome, SendFails, NotDrained, CloseSocket, EndSocket, Nap, TypeOK, ConnectionTypeOK
    <3> QED
      BY <3>1 DEF Mode, Flush, Close, StartDrain, Does, Go
  <2> QED
    BY <2>0, <2>1 DEF Roomy
<1>10. CASE UNCHANGED vars
  BY <1>0, <1>10 DEF vars, connVars, peerVars, sockVars, loopVars, writeVars, Room, Roomy
<1> QED
  BY <1>1, <1>2, <1>3, <1>4, <1>5, <1>6, <1>7, <1>8, <1>9, <1>10 DEF Next, Environment, Program, LoopStep, Handle, Aside, Handled

LEMMA SendingStep ==
  ASSUME TcpAssumption, TypeOK, Control, Connecting, Waiting, Sending, [Next]_vars PROVE Sending'
<1>1. at' \notin {"send", "drain"} => unit' = 0
  <2>0. at \notin {"send", "drain"} => unit = 0
    BY DEF Sending
  <2>1. CASE Peer \/ LoopStep \/ Handle \/ UNCHANGED vars
    BY <2>0, <2>1 DEF Peer, LoopStep, Handle, vars, connVars, writeVars
  <2>2. CASE RunStep
    BY <2>0, <2>2 DEF RunStep, Start, ConnectDone, Refilled, DrainOn, WakeUp, EndRun, Resumed, writeVars
  <2>3. CASE CoStep
    <3>1. CASE SetTimer \/ Read \/ Write
      BY <2>0, <3>1 DEF SetTimer, Read, Write, Does, Go, writeVars
    <3>2. CASE Mode \/ Flush \/ Close
      BY <2>0, <3>2 DEF Mode, Flush, Close, Does, Go, StartDrain
    <3>3. CASE LookAtBuffer
      BY <2>0, <3>3, LookDoes DEF writeVars
    <3>4. CASE SendAll \/ SendSome \/ SendFails \/ CloseSocket \/ Nap
      BY <2>0, <3>4 DEF SendAll, Drained, SendSome, SendFails, NotDrained, CloseSocket, EndSocket, Nap, Does,
                        Yield, Go, writeVars
    <3> QED
      BY <2>3, <3>1, <3>2, <3>3, <3>4 DEF CoStep, Ioing
  <2> QED
    BY <2>1, <2>2, <2>3 DEF Next, Environment, Program
<1> QED
  BY <1>1, PieceStep, RoomyStep DEF Sending, PieceKept, Roomy

Unsent == Drop(writebuf, unit - Len(piece))
Outgoing == (peerGot \o leaving) \o Unsent

LEMMA UnsentIs ==
  ASSUME TcpAssumption, TypeOK, Sending
  PROVE  /\ Unsent \in Seq(Nat) /\ peerGot \o leaving \in Seq(Nat)
         /\ Unsent = piece \o Drop(writebuf, unit) /\ Drop(writebuf, unit) \in Seq(Nat)
<1> DEFINE m == unit - Len(piece)
           w == Len(writebuf)
<1>1. m \in Nat /\ m <= unit /\ unit <= w /\ writebuf \in Seq(Nat) /\ unit \in Nat /\ w \in Nat
      /\ piece = SubSeq(writebuf, m + 1, unit)
  BY OutParts DEF Sending
<1> HIDE DEF m
<1>2. m <= w /\ w <= Len(writebuf)
  BY <1>1
<1>3. SubSeq(writebuf, m + 1, w) = SubSeq(writebuf, m + 1, unit) \o SubSeq(writebuf, unit + 1, w)
  BY <1>1, <1>2, PartJoin
<1>4. SubSeq(writebuf, m + 1, w) \in Seq(Nat)
  BY <1>1, <1>2, PartOf
<1>5. SubSeq(writebuf, unit + 1, w) \in Seq(Nat)
  BY <1>1, <1>2, PartOf
<1>6. peerGot \o leaving \in Seq(Nat)
  BY OutParts, Joined
<1> QED
  BY <1>1, <1>3, <1>4, <1>5, <1>6 DEF Unsent, Drop, m

LEMMA AllWrittenStep ==
  ASSUME TcpAssumption, TypeOK, Control, Connecting, Sending, AllWritten, [Next]_vars PROVE AllWritten'
<1> SUFFICES ASSUME ~ broken', link' = "up" PROVE Outgoing' = Numbers(written')
  BY DEF AllWritten, Outgoing, Unsent
<1>0. ~ broken /\ (link = "up" => Outgoing = Numbers(written))
  <2>1. ~ broken
    BY BrokenStays
  <2> QED
    BY <2>1 DEF AllWritten, Outgoing, Unsent
<1>a. ASSUME link = "up", UNCHANGED <<peerGot, leaving, Unsent, written>> PROVE Outgoing' = Numbers(written')
  BY <1>0, <1>a DEF Outgoing, Numbers
<1>1. CASE Peer
  <2>1. UNCHANGED <<writebuf, piece, unit, written>> /\ Unsent' = Unsent
    BY <1>1 DEF Peer, writeVars, Unsent, Drop
  <2>2. CASE LinkUp
    <3>1. written = 0 /\ writebuf = << >> /\ leaving = << >> /\ peerGot = << >>
      BY <2>2 DEF LinkUp, Connecting
    <3>2. piece = << >> /\ unit = 0
      BY <2>2, OutParts DEF LinkUp, Connecting, Sending
    <3>3. Unsent = << >>
      BY <3>1, <3>2 DEF Unsent, Drop
    <3>4. Numbers(0) = << >>
      BY DEF Numbers
    <3>5. UNCHANGED <<leaving, peerGot>>
      BY <2>2 DEF LinkUp, sockVars
    <3> QED
      BY <2>1, <3>1, <3>3, <3>4, <3>5 DEF Outgoing
  <2>3. CASE PeerReads
    <3>1. leaving # << >> /\ peerGot' = Append(peerGot, Head(leaving)) /\ leaving' = Tail(leaving) /\ link = "up"
      BY <2>3 DEF PeerReads
    <3>2. Append(peerGot, Head(leaving)) \o Tail(leaving) = peerGot \o leaving
      BY <3>1, OutParts, TakenIs
    <3> QED
      BY <1>0, <2>1, <3>1, <3>2 DEF Outgoing, Numbers
  <2>4. CASE LinkDown
    BY <2>4 DEF LinkDown
  <2>5. CASE PeerSends \/ PeerShuts
    BY <1>a, <2>1, <2>5 DEF PeerSends, PeerShuts, sockVars
  <2> QED
    BY <1>1, <2>2, <2>3, <2>4, <2>5 DEF Peer
<1>2. CASE LoopStep \/ Handle \/ RunStep \/ UNCHANGED vars
  <2>1. UNCHANGED <<writebuf, piece, unit, written, link, leaving, peerGot>>
    BY <1>2 DEF LoopStep, Handle, RunStep, Start, ConnectDone, Refilled, DrainOn, WakeUp, EndRun,
                vars, connVars, peerVars, sockVars, writeVars
  <2> QED
    BY <1>a, <2>1 DEF Unsent, Drop
<1>3. CASE CoStep
  <2>0. link = "up" /\ peerGot' = peerGot
    BY <1>3 DEF CoStep, peerVars
  <2>i. at \notin {"send", "drain"} => unit = 0 /\ piece = << >> /\ Unsent = writebuf
    <3>1. at \notin {"send", "drain"} => unit = 0 /\ piece = << >>
      BY OutParts DEF Sending
    <3>2. unit = 0 /\ piece = << >> => Unsent = Drop(writebuf, 0)
      BY DEF Unsent
    <3> QED
      BY <3>1, <3>2, OutParts, DropNone
  <2>1. CASE SetTimer \/ Read \/ CloseSocket \/ Nap
    BY <1>a, <2>0, <2>1 DEF SetTimer, Read, CloseSocket, Nap, sockVars, writeVars, Unsent, Drop
  <2>2. CASE LookAtBuffer
    BY <1>a, <2>0, <2>2, LookDoes DEF sockVars, writeVars, Unsent, Drop
  <2>3. CASE Write
    <3>1. PICK n \in 1 .. Out - written : /\ writebuf' = writebuf \o [k \in 1 .. n |-> written + k]
                                          /\ written' = written + n
      BY <2>3 DEF Write
    <3>2. unit' = 0 /\ piece' = << >> /\ Unsent = writebuf /\ leaving' = leaving
      BY <2>i, <2>3 DEF Write, Does, sockVars
    <3> DEFINE more == [k \in 1 .. n |-> written + k]
               front == peerGot \o leaving
    <3>3. more \in Seq(Nat)
      BY OutParts
    <3>4. Numbers(written) \o more = Numbers(written + n)
      <4>1. written \in Nat /\ n \in Nat
        BY OutParts
      <4> QED
        BY <4>1, NumbersNext
    <3> HIDE DEF more
    <3>4a. writebuf \in Seq(Nat) /\ leaving \in Seq(Nat) /\ peerGot \in Seq(Nat)
      BY OutParts
    <3>5. writebuf \in Seq(Nat) /\ front \in Seq(Nat) /\ writebuf \o more \in Seq(Nat)
      BY <3>3, <3>4a, Joined
    <3>6. Unsent' = writebuf \o more
      <4>1. Unsent' = Drop(writebuf', 0)
        BY <3>2 DEF Unsent
      <4> QED
        BY <3>1, <3>5, <4>1, DropNone DEF more
    <3> HIDE DEF front
    <3>7. front \o (writebuf \o more) = (front \o writebuf) \o more
      BY <3>3, <3>5, Regroup
    <3>8. Outgoing' = front \o (writebuf \o more)
      BY <2>0, <3>2, <3>6 DEF Outgoing, front
    <3>9. front \o writebuf = Numbers(written)
      BY <1>0, <2>0, <3>2 DEF Outgoing, front
    <3> QED
      BY <3>1, <3>4, <3>7, <3>8, <3>9 DEF Numbers
  <2>4. CASE Mode \/ Flush \/ Close
    <3>1. at = "app" \/ at = "mode"
      BY <2>4 DEF Mode, Flush, Close, Does
    <3>2. UNCHANGED <<leaving, writebuf, written>>
      BY <2>4 DEF Mode, Flush, Close, sockVars
    <3>3. \/ UNCHANGED <<piece, unit>>
          \/ unit' = Len(piece') /\ piece' \in Seq(Nat)
      <4>1. CASE Mode
        <5>1. CASE Piece(mode, WSize, writebuf) = Nil
          BY <4>1, <5>1 DEF Mode
        <5>2. CASE Piece(mode, WSize, writebuf) # Nil
          <6>1. Piece(mode, WSize, writebuf) \in Seq(Nat)
            BY <5>2, FrontOfBuffer, OutParts, TakeDrop
          <6> QED
            BY <4>1, <5>2, <6>1 DEF Mode, StartDrain
        <5> QED
          BY <5>1, <5>2
      <4>2. CASE Flush
        BY <4>2, OutParts DEF Flush, StartDrain
      <4>3. CASE Close
        BY <4>3, OutParts DEF Close, StartDrain
      <4> QED
        BY <2>4, <4>1, <4>2, <4>3
    <3>4. Unsent' = writebuf
      <4>1. CASE UNCHANGED <<piece, unit>>
        BY <2>i, <3>1, <3>2, <4>1 DEF Unsent, Drop
      <4>2. CASE unit' = Len(piece') /\ piece' \in Seq(Nat)
        <5>1. unit' - Len(piece') = 0
          BY <4>2
        <5>2. Unsent' = Drop(writebuf, 0)
          BY <3>2, <5>1 DEF Unsent
        <5> QED
          BY <5>2, OutParts, DropNone
      <4> QED
        BY <3>3, <4>1, <4>2
    <3> QED
      BY <1>a, <2>i, <2>0, <3>1, <3>2, <3>4
  <2>5. CASE SendAll
    <3>1. leaving' = leaving \o piece /\ written' = written /\ Unsent' = Drop(Drop(writebuf, unit), 0)
      BY <2>5 DEF SendAll, Drained, DropUnit, Unsent
    <3> DEFINE rest == Drop(writebuf, unit)
    <3>2. rest \in Seq(Nat) /\ Unsent = piece \o rest
      BY UnsentIs
    <3> HIDE DEF rest
    <3>3. Unsent' = rest
      BY <3>1, <3>2, DropNone DEF rest
    <3>4. (peerGot \o (leaving \o piece)) \o rest = (peerGot \o leaving) \o (piece \o rest)
      <4>1. peerGot \in Seq(Nat) /\ leaving \in Seq(Nat) /\ piece \in Seq(Nat)
        BY OutParts
      <4> QED
        <5>1. rest \in Seq(Nat)
          BY <3>2
        <5>2. peerGot \o (leaving \o piece) = (peerGot \o leaving) \o piece
          BY <4>1, <5>1, Regroup
        <5> DEFINE b == peerGot \o leaving
        <5>3. b \in Seq(Nat)
          BY <4>1, Joined
        <5> HIDE DEF b
        <5>4. (b \o piece) \o rest = b \o (piece \o rest)
          BY <4>1, <5>1, <5>3, Regroup
        <5> QED
          BY <5>2, <5>4 DEF b
    <3>5. Outgoing' = Outgoing
      BY <2>0, <3>1, <3>2, <3>3, <3>4 DEF Outgoing
    <3> QED
      BY <1>0, <2>0, <3>1, <3>5 DEF Numbers
  <2>6. CASE SendSome
    <3> DEFINE m == unit - Len(piece)
               n == m + Room
               w == Len(writebuf)
    <3>1. /\ m \in Nat /\ n \in Nat /\ m <= n /\ n <= w /\ w \in Nat /\ writebuf \in Seq(Nat) /\ n - m = Room
          /\ n <= unit /\ unit \in Nat /\ unit <= w /\ unit - n = Len(piece) - Room /\ Room \in 0 .. Len(piece)
      <4>1. Room \in Nat /\ Room < Len(piece)
        BY <2>6, OutParts DEF SendSome, Room
      <4>2. /\ Len(piece) \in Nat /\ unit \in Nat /\ Len(piece) <= unit /\ unit <= Len(writebuf)
            /\ Len(writebuf) \in Nat /\ writebuf \in Seq(Nat)
        BY OutParts DEF Sending
      <4> QED
        BY <4>1, <4>2
    <3>2. /\ piece' = Drop(piece, Room) /\ leaving' = leaving \o Take(piece, Room)
          /\ UNCHANGED <<writebuf, unit, written>>
      BY <2>6 DEF SendSome
    <3>3. piece = SubSeq(writebuf, m + 1, unit)
      BY DEF Sending
    <3>4. Unsent = SubSeq(writebuf, m + 1, w)
      BY DEF Unsent, Drop
    <3> HIDE DEF m, n
    <3>5. Take(piece, Room) = SubSeq(writebuf, m + 1, n)
      BY <3>1, <3>3, PartTake
    <3>6. Len(piece') = unit - n
      <4>1. Len(Drop(piece, Room)) = Len(piece) - Room
        BY <3>1, OutParts, TakeDrop
      <4> QED
        BY <3>1, <3>2, <4>1
    <3>7. Unsent' = SubSeq(writebuf, n + 1, w)
      <4>1. unit' - Len(piece') = n
        BY <3>1, <3>2, <3>6
      <4> QED
        BY <3>2, <4>1 DEF Unsent, Drop
    <3> DEFINE some == SubSeq(writebuf, m + 1, n)
               rest == SubSeq(writebuf, n + 1, w)
    <3>8. some \in Seq(Nat) /\ rest \in Seq(Nat) /\ Unsent = some \o rest
      <4>1. m <= n /\ n <= w /\ w <= Len(writebuf)
        BY <3>1
      <4>2. SubSeq(writebuf, m + 1, n) \in Seq(Nat) /\ SubSeq(writebuf, n + 1, w) \in Seq(Nat)
        BY <3>1, <4>1, PartOf
      <4>3. Unsent = SubSeq(writebuf, m + 1, n) \o SubSeq(writebuf, n + 1, w)
        BY <3>1, <3>4, <4>1, PartJoin
      <4> QED
        BY <4>2, <4>3
    <3> HIDE DEF some, rest
    <3>9. (peerGot \o (leaving \o some)) \o rest = (peerGot \o leaving) \o (some \o rest)
      <4>1. peerGot \in Seq(Nat) /\ leaving \in Seq(Nat)
        BY OutParts
      <4> QED
        <5>1. rest \in Seq(Nat) /\ some \in Seq(Nat)
          BY <3>8
        <5>2. peerGot \o (leaving \o some) = (peerGot \o leaving) \o some
          BY <4>1, <5>1, Regroup
        <5> DEFINE b == peerGot \o leaving
        <5>3. b \in Seq(Nat)
          BY <4>1, Joined
        <5> HIDE DEF b
        <5>4. (b \o some) \o rest = b \o (some \o rest)
          BY <4>1, <5>1, <5>3, Regroup
        <5> QED
          BY <5>2, <5>4 DEF b
    <3>10. leaving' = leaving \o some /\ Unsent' = rest
      BY <3>2, <3>5, <3>7 DEF some, rest
    <3>11. Outgoing' = Outgoing
      BY <2>0, <3>8, <3>9, <3>10 DEF Outgoing
    <3> QED
      BY <1>0, <2>0, <3>2, <3>11 DEF Numbers
  <2>7. CASE SendFails
    <3>1. unit = Len(piece) /\ unit' = 0 /\ piece' = << >> /\ UNCHANGED <<writebuf, leaving, written>>
      BY <1>0, <2>0, <2>7, OutParts DEF SendFails, NotDrained, Sending, Does, sockVars
    <3>2. Unsent = Drop(writebuf, 0)
      <4>1. unit - Len(piece) = 0
        BY <3>1, OutParts
      <4> QED
        BY <4>1 DEF Unsent
    <3>3. Unsent' = Drop(writebuf, 0)
      BY <3>1 DEF Unsent
    <3> QED
      BY <1>a, <2>0, <3>1, <3>2, <3>3
  <2> QED
    BY <1>3, <2>1, <2>2, <2>3, <2>4, <2>5, <2>6, <2>7 DEF CoStep, Ioing
<1> QED
  BY <1>1, <1>2, <1>3 DEF Next, Environment, Program

-----------------------------------------------------------------------------
(* Lines.                                                                  *)

\* What a look leaves, and what it gives when it is for a line.
LEMMA LineLookDoes ==
  ASSUME TcpAssumption, TypeOK, Ending, ~ broken, ~ eof, Lines, LookAtBuffer, format.kind = "line"
  PROVE  \/ /\ at' = "refill" /\ UNCHANGED <<readbuf, used>>
            /\ NoEnd /\ NoEndBefore(readbuf, rpos') /\ rpos' <= Len(readbuf) + 1
         \/ /\ at' = "app" /\ rpos' = 1
            /\ \E e \in 1 .. Len(readbuf) :
                 NoEndBefore(readbuf, e) /\ used' = used \o Take(readbuf, e) /\ readbuf' = Drop(readbuf, e)
<1>1. readbuf \in Seq(Nat) /\ used \in Seq(Nat) /\ NoEndBefore(readbuf, rpos) /\ rpos \in Nat
  BY Values DEF TypeOK, ConnectionTypeOK, Ending, Lines
<1>2. Try(format, readbuf, rpos, eof, tried) = TryLine(readbuf, rpos)
  <2>1. format.kind # "bytes"
    OBVIOUS
  <2> QED
    BY <2>1, Zenon DEF Try
<1>3. CASE LineMissing(readbuf, rpos)
  <2>1. PICK next \in {rpos, Len(readbuf) + 1} :
               next <= Len(readbuf) + 1 /\ TryLine(readbuf, rpos) = More(readbuf, next)
    BY <1>3 DEF LineMissing
  <2>2. NoEnd /\ NoEndBefore(readbuf, next)
    BY <1>1, <1>3, <2>1 DEF NoEnd, LineMissing
  <2>3. at' = "refill" /\ readbuf' = readbuf /\ rpos' = next /\ used' = used \o << >>
    <3>1. /\ TryLine(readbuf, rpos).more /\ TryLine(readbuf, rpos).buf = readbuf
          /\ TryLine(readbuf, rpos).rpos = next /\ TryLine(readbuf, rpos).used = << >>
      BY <2>1 DEF More
    <3> QED
      BY <1>2, <3>1, LookDoes
  <2>4. used \o << >> = used
    BY <1>1, ConcatEmptySeq
  <2> QED
    BY <2>1, <2>2, <2>3, <2>4
<1>4. CASE LineThere(readbuf, rpos)
  <2>1. PICK e \in 1 .. Len(readbuf) :
              /\ NoEndBefore(readbuf, e)
              /\ \E data : TryLine(readbuf, rpos) = Found(data, Take(readbuf, e), Drop(readbuf, e), 1)
    BY <1>4, Zenon DEF LineThere
  <2>2. /\ at' = "app" /\ readbuf' = Drop(readbuf, e) /\ rpos' = 1
        /\ used' = used \o Take(readbuf, e)
    BY <1>2, <2>1, LookDoes DEF Found
  <2> QED
    BY <2>1, <2>2
<1> QED
  BY <1>1, <1>3, <1>4, LineLook

\* A read() of a line gives it up to its end and no further.
LEMMA LineStepHolds ==
  ASSUME TcpAssumption, TypeOK, Ending, Lines, [Next]_vars PROVE LineStep
<1> SUFFICES ASSUME Does("read"), format.kind = "line", ~ eof, ~ broken, at' = "app",
                    NEW k \in Len(used) + 1 .. Len(used') - 1
             PROVE  Is[used'[k]] # "lf"
  BY DEF LineStep
<1>1. at = "read" /\ loop = "co"
  BY DEF Does
<1>2. LookAtBuffer
  <2>1. ~ (Peer \/ LoopStep \/ Handle \/ UNCHANGED vars)
    BY <1>1 DEF Peer, LoopStep, Handle, vars, connVars
  <2>2. ~ RunStep
    BY <1>1 DEF RunStep, Start, ConnectDone, Refilled, DrainOn, WakeUp, EndRun, Resumed
  <2>3. ~ (Ioing \/ Nap \/ Close \/ SendAll \/ SendSome \/ SendFails \/ CloseSocket)
    BY <1>1 DEF Ioing, SetTimer, Read, Write, Mode, Flush, Nap, Close, SendAll, SendSome, SendFails,
                CloseSocket, Does
  <2> QED
    BY <2>1, <2>2, <2>3 DEF Next, Environment, Program, CoStep
<1>3. PICK e \in 1 .. Len(readbuf) : NoEndBefore(readbuf, e) /\ used' = used \o Take(readbuf, e)
  BY <1>2, LineLookDoes
<1>4. readbuf \in Seq(Nat) /\ used \in Seq(Nat)
  BY Values DEF TypeOK, ConnectionTypeOK, Ending
<1> DEFINE line == Take(readbuf, e)
           j == k - Len(used)
<1>5. line \in Seq(Nat) /\ Len(line) = e /\ \A i \in 1 .. e : line[i] = readbuf[i]
  BY <1>4, TakeDrop
<1> HIDE DEF line
<1>6. /\ Len(used \o line) = Len(used) + e
      /\ \A i \in 1 .. Len(used) + e : (used \o line)[i] = IF i <= Len(used) THEN used[i] ELSE line[i - Len(used)]
  BY <1>4, <1>5, ConcatProperties
<1>7. used' = used \o line
  BY <1>3 DEF line
<1>8. j \in 1 .. e - 1 /\ j \in 1 .. Len(readbuf) /\ j < e /\ k \in 1 .. Len(used) + e /\ ~ (k <= Len(used))
  BY <1>4, <1>6, <1>7
<1>9. used'[k] = readbuf[j]
  BY <1>5, <1>6, <1>7, <1>8
<1> QED
  BY <1>3, <1>8, <1>9 DEF NoEndBefore

LEMMA LinesStep ==
  ASSUME TcpAssumption, TypeOK, Control, Ending, Waiting, Lines, [Next]_vars PROVE Lines'
<1> SUFFICES ASSUME ~ broken', ~ eof' PROVE Lines'
  BY DEF Lines
<1>0. ~ broken
  BY BrokenStays
<1> USE DEF Lines, NoEnd, InHand
<1>1. CASE Peer
  BY <1>0, <1>1 DEF Peer, LinkUp, LinkDown, PeerSends, PeerShuts, PeerReads, loopVars, readVars
<1>2. CASE TimerDue /\ Aside
  BY <1>0, <1>2, TimerDueDoes, Values DEF readVars, peerVars
<1>3. CASE NoTimerDue /\ Aside
  BY <1>0, <1>3 DEF NoTimerDue, Aside, GoTo, peerVars, readVars
<1>4. CASE Wait /\ Aside
  BY <1>0, <1>4, WaitDoes DEF peerVars, readVars
<1>5. CASE Hangup /\ Handled
  BY <1>5, HangupDoes
<1>6. CASE Receive /\ Handled
  <2>1. ~ eof /\ arrived \in Seq(Nat)
    BY <1>6, ReceiveDoes, Values DEF Ending, TypeOK
  <2>2. queued' # Nil => queued' = queued \/ queued'.kind = "data" \/ link = "down"
    BY <1>6, <2>1, ReceiveDoes, Values
  <2> QED
    BY <1>0, <1>6, <2>1, <2>2, ReceiveDoes DEF peerVars, readVars
<1>7. CASE Writable /\ Handled
  BY <1>0, <1>7, WritableDoes, Values DEF peerVars, readVars, Waiting, Control
<1>8. CASE RunStep
  <2>1. CASE Start
    BY <1>0, <1>8, <2>1 DEF RunStep, Start, Resumed, GoTo, peerVars, readVars
  <2>2. CASE ConnectDone
    BY <1>0, <1>8, <2>2 DEF RunStep, ConnectDone, Resumed, GoTo, peerVars, readVars
  <2>3. CASE Refilled
    <3>1. /\ queued.bytes \in Seq(Nat) /\ readbuf \in Seq(Nat) /\ InHand = queued.bytes
          /\ UNCHANGED <<rpos, eof, broken, format, link>> /\ InHand' = << >> /\ loop' = "co"
      BY <1>8, <2>3, RefilledDoes, Values DEF RunStep, peerVars, TypeOK, ConnectionTypeOK, Ending
    <3>2. CASE queued.kind # "data"
      <4>1. at = "refill" /\ queued # Nil /\ readbuf' = readbuf /\ at' = "app"
        BY <2>3, <3>2, RefilledDoes
      <4> QED
        BY <1>0, <3>1, <3>2, <4>1
    <3>3. CASE queued.kind = "data"
      <4>1. at = "refill" /\ queued # Nil /\ readbuf' = readbuf \o queued.bytes /\ at' = "read"
        BY <2>3, <3>3, RefilledDoes
      <4>2. CASE InHand = << >>
        <5>1. readbuf' = readbuf
          BY <3>1, <4>1, <4>2, ConcatEmptySeq
        <5> QED
          BY <1>0, <3>1, <4>1, <5>1
      <4>3. CASE InHand # << >>
        <5>1. rpos = 1 \/ (format.kind = "line" /\ NoEnd /\ rpos <= Len(readbuf) + 1)
          BY <1>0, <3>1, <4>1, <4>3
        <5>2. rpos \in Nat
          BY <3>1 DEF TypeOK, ConnectionTypeOK
        <5>3. NoEndBefore(readbuf', rpos)
          <6>1. /\ Len(readbuf \o queued.bytes) = Len(readbuf) + Len(queued.bytes)
                /\ \A j \in 1 .. Len(readbuf) : (readbuf \o queued.bytes)[j] = readbuf[j]
            BY <3>1
          <6>2. ASSUME NEW j \in 1 .. Len(readbuf'), j < rpos PROVE Is[readbuf'[j]] # "lf"
            <7>1. j \in 1 .. Len(readbuf) /\ j < Len(readbuf) + 1 /\ NoEnd
              BY <3>1, <5>1, <5>2, <6>2
            <7>2. readbuf'[j] = readbuf[j]
              BY <4>1, <6>1, <7>1
            <7> QED
              BY <7>1, <7>2 DEF NoEndBefore
          <6> QED
            BY <6>2 DEF NoEndBefore
        <5> QED
          BY <1>0, <3>1, <4>1, <5>1, <5>3
      <4> QED
        BY <4>2, <4>3
    <3> QED
      BY <3>2, <3>3
  <2>4. CASE DrainOn
    BY <1>0, <1>8, <2>4 DEF RunStep, DrainOn, Resumed, GoTo, peerVars, readVars
  <2>5. CASE EndRun
    BY <1>0, <1>8, <2>5 DEF RunStep, EndRun, GoTo, peerVars, readVars
  <2>6. CASE WakeUp
    BY <1>0, <1>8, <2>6 DEF RunStep, WakeUp, Resumed, GoTo, peerVars, readVars
  <2> QED
    BY <1>8, <2>1, <2>2, <2>3, <2>4, <2>5, <2>6 DEF RunStep
<1>9. CASE CoStep
  <2>1. CASE SetTimer \/ Read
    BY <1>0, <1>9, <2>1 DEF CoStep, SetTimer, Read, Does, Go, peerVars, readVars
  <2>2. CASE LookAtBuffer
    <3>1. /\ readbuf \in Seq(Nat) /\ at = "read" /\ loop = "co" /\ ~ eof
          /\ rpos \in Nat /\ format \in [kind : {"bytes", "line", "block", "all"}, n : Nat]
          /\ UNCHANGED <<queued, format, link, eof>> /\ (at' = "app" \/ at' = "refill") /\ loop' # "read"
          /\ queued = Nil
      <4>1. /\ at = "read" /\ loop = "co" /\ UNCHANGED <<queued, format, eof>>
            /\ (at' = "app" \/ at' = "refill") /\ loop' # "read"
        BY <2>2, LookDoes
      <4>2. ~ eof /\ link' = link /\ queued = Nil
        BY <1>9, <4>1 DEF CoStep, peerVars, Control
      <4>3. readbuf \in Seq(Nat) /\ rpos \in Nat
        BY <4>2, Values DEF TypeOK, ConnectionTypeOK, Ending
      <4>4. format \in [kind : {"bytes", "line", "block", "all"}, n : Nat]
        BY DEF TypeOK, ConnectionTypeOK, TcpAssumption, ConnectionAssumption
      <4> QED
        BY <4>1, <4>2, <4>3, <4>4
    <3>2. CASE format.kind = "line"
      <4>1. CASE /\ at' = "refill" /\ UNCHANGED <<readbuf, used>>
                 /\ NoEnd /\ NoEndBefore(readbuf, rpos') /\ rpos' <= Len(readbuf) + 1
        BY <3>1, <3>2, <4>1
      <4>2. CASE at' = "app" /\ rpos' = 1
        BY <3>1, <3>2, <4>2 DEF NoEndBefore
      <4> QED
        BY <1>0, <2>2, <3>1, <3>2, <4>1, <4>2, LineLookDoes
    <3>3. CASE format.kind # "line"
      <4>1. PICK look : /\ look = Try(format, readbuf, rpos, eof, tried)
                        /\ readbuf' = look.buf /\ rpos' = look.rpos
        BY <2>2, LookDoes
      <4>2. rpos' \in {rpos, 1} /\ \E n \in 0 .. Len(readbuf) : readbuf' = Drop(readbuf, n)
        BY <3>1, <3>3, <4>1, OtherLook
      <4>3. CASE rpos' = 1
        BY <3>1, <3>3, <4>3 DEF NoEndBefore
      <4>4. CASE rpos' # 1
        <5>1. rpos' = rpos /\ rpos # 1
          BY <4>2, <4>4
        <5>2. link = "down" /\ InHand = << >> /\ NoEnd
          BY <1>0, <3>1, <3>3, <5>1
        <5>3. \A k \in Nat : NoEndBefore(readbuf', k)
          BY <3>1, <4>2, <5>2, NoEndDropped
        <5>4. Len(readbuf') + 1 \in Nat
          BY <3>1, <4>2, TakeDrop
        <5> QED
          BY <3>1, <3>3, <5>1, <5>2, <5>3, <5>4
      <4> QED
        BY <4>3, <4>4
    <3> QED
      BY <3>2, <3>3
  <2>3. CASE Write \/ Mode \/ Flush \/ Close
    BY <1>0, <1>9, <2>3 DEF CoStep, Write, Mode, Flush, Close, StartDrain, Does, Go, peerVars, readVars
  <2>4. CASE SendAll
    BY <1>0, <1>9, <2>4 DEF CoStep, SendAll, Drained, Does, Go, peerVars, readVars, Sending, TypeOK, ConnectionTypeOK
  <2>5. CASE SendSome
    BY <1>0, <1>9, <2>5 DEF CoStep, SendSome, Yield, GoTo, Does, peerVars, readVars
  <2>6. CASE SendFails
    BY <1>0, <1>9, <2>6 DEF CoStep, SendFails, NotDrained, Does, Go, peerVars, readVars
  <2>7. CASE CloseSocket
    BY <1>0, <1>9, <2>7 DEF CoStep, CloseSocket, EndSocket, Yield, GoTo, Does, peerVars, readVars
  <2>8. CASE Nap
    BY <1>0, <1>9, <2>8 DEF CoStep, Nap, Yield, GoTo, Does, peerVars, readVars
  <2> QED
    BY <1>9, <2>1, <2>2, <2>3, <2>4, <2>5, <2>6, <2>7, <2>8 DEF CoStep, Ioing
<1>10. CASE UNCHANGED vars
  BY <1>0, <1>10 DEF vars, connVars, peerVars, loopVars, readVars
<1> QED
  BY <1>1, <1>2, <1>3, <1>4, <1>5, <1>6, <1>7, <1>8, <1>9, <1>10 DEF Next, Environment, Program, LoopStep, Handle, Aside, Handled

-----------------------------------------------------------------------------
(* The inductive invariant.                                                *)

IInv ==
  /\ TypeOK /\ Control /\ Connecting /\ Ending /\ Waiting
  /\ Kept /\ NothingLost
  /\ Sending /\ AllWritten
  /\ Lines

LEMMA NothingYet == << >> \o << >> = << >> /\ Numbers(0) = << >>
<1>1. << >> \in Seq(Nat)
  OBVIOUS
<1> QED
  BY <1>1, ConcatEmptySeq DEF Numbers

LEMMA InitIInv == ASSUME TcpAssumption, Init PROVE IInv
<1> USE DEF Init, ConnectionInit
<1>0. /\ queued = Nil \/ (queued = Packet(<< >>) /\ queued # Nil /\ queued.kind = "data" /\ queued.bytes = << >>)
      /\ InHand = << >> /\ << >> # Nil /\ Bytes(readbuf) = << >>
  <2>1. << >> \in Seq(Nat)
    OBVIOUS
  <2> QED
    BY <2>1, Values DEF InHand, Bytes
<1>1. TypeOK
  <2>1. /\ format \in Formats /\ << >> \in InBytes /\ << >> \in OutBytes /\ Len(Coming) \in Nat
        /\ Out \in Nat /\ Len(Is) \in Nat /\ Timers \in BOOLEAN
    BY DEF TcpAssumption, ConnectionAssumption, InBytes, OutBytes
  <2>2. queued = Nil \/ queued \in [kind : {"data", "true", "false", "nil"}, bytes : InBytes]
    BY <2>1 DEF Packet, Value
  <2>3. armed \in BOOLEAN
    BY <2>1, Zenon
  <2> QED
    <3>1. Places /\ ComingIn
      BY <2>1, <2>2 DEF Places, ComingIn
    <3>2. GoingOut
      <4>1. unit \in 0 .. Len(writebuf)
        OBVIOUS
      <4> QED
        BY <2>1, <4>1 DEF GoingOut
    <3>3. Flags
      BY <2>3, Zenon DEF Flags
    <3>4. Position
      BY <2>1 DEF Position
    <3>5. Losses
      BY DEF Losses
    <3> QED
      BY <3>1, <3>2, <3>3, <3>4, <3>5, TypeParts
<1>2. Control
  BY <1>0 DEF Control
<1>3. Connecting
  BY <1>0 DEF Connecting
<1>4. Ending
  BY <1>0 DEF Ending
<1>5. Waiting
  BY DEF Waiting
<1>6. Received \o arrived = << >>
  BY <1>0, NothingYet DEF Received
<1>7. Kept
  <2>1. Ordered(Numbers(0), 0)
    BY NumbersOrdered
  <2> QED
    BY <1>6, <2>1, NothingYet DEF Kept
<1>8. NothingLost
  <2>1. Range(Received \o arrived) = {}
    BY <1>6 DEF Range
  <2> QED
    BY <2>1 DEF NothingLost
<1>9. Sending
  BY DEF Sending
<1>10. AllWritten
  <2>1. Drop(writebuf, unit - Len(piece)) = << >>
    BY DEF Drop
  <2> QED
    BY <2>1, NothingYet DEF AllWritten
<1>11. Lines
  BY <1>0 DEF Lines, NoEndBefore
<1> QED
  BY <1>1, <1>2, <1>3, <1>4, <1>5, <1>7, <1>8, <1>9, <1>10, <1>11 DEF IInv

LEMMA NextIInv == ASSUME TcpAssumption, IInv, [Next]_vars PROVE IInv'
BY TypeStep, ControlStep, ConnectingStep, EndingStep, WaitingStep, KeptStep, NothingLostStep,
   SendingStep, AllWrittenStep, LinesStep DEF IInv

LEMMA Inductive == ASSUME TcpAssumption PROVE Spec => []IInv
<1>1. Init => IInv
  BY InitIInv
<1>2. IInv /\ [Next]_vars => IInv'
  BY NextIInv
<1> QED
  BY <1>1, <1>2, PTL DEF Spec
-----------------------------------------------------------------------------
(* What holds of a connection.                                             *)

LEMMA Gives == ASSUME TcpAssumption, IInv PROVE TypeOK /\ NothingLost /\ InOrder /\ AllWritten /\ RightEvent
<1>1. InOrder
  BY DEF IInv, Kept, Ordered, InOrder
<1>2. RightEvent
  BY DEF IInv, Waiting, RightEvent
<1> QED
  BY <1>1, <1>2 DEF IInv

\* The variables of lua/nfl/tcp.lua and lua/net/ios.lua stay within their types,
\* for streams, formats and sockets of any size: among them _rpos, which may be
\* kept from one read() to the next, never gets more than one past the stream,
\* and a unit that is drained never gets longer than the buffer.
THEOREM TypesStay == ASSUME TcpAssumption PROVE Spec => []TypeOK
<1>1. IInv => TypeOK
  BY Gives
<1> QED
  BY <1>1, Inductive, PTL

\* Every byte that the peer sent is in the socket, in the run queue, in the buffer
\* of ios or with the program, but for those that recv() took while the coroutine
\* slept, and those it took in a call after a timer had broken into one.
THEOREM NoneLost == ASSUME TcpAssumption PROVE Spec => []NothingLost
<1>1. IInv => NothingLost
  BY Gives
<1> QED
  BY <1>1, Inductive, PTL

\* Whatever timers do, and however often schedule() drops a packet, read() gives
\* no byte twice nor in another order than the peer sent them.
THEOREM KeepsOrder == ASSUME TcpAssumption PROVE Spec => []InOrder
<1>1. IInv => InOrder
  BY Gives
<1> QED
  BY <1>1, Inductive, PTL

\* What write() was given is with the peer, in the socket or still in _writebuf,
\* each byte once: _drain() neither repeats the part of a unit that send() took
\* nor drops the rest, as long as the connection is up and no timer broke in.
THEOREM EachSentOnce == ASSUME TcpAssumption PROVE Spec => []AllWritten
<1>1. IInv => AllWritten
  BY Gives
<1> QED
  BY <1>1, Inductive, PTL

\* The socket waits for what the coroutine that yielded in refill() or _drain()
\* waits for.
THEOREM WaitsForTheRight == ASSUME TcpAssumption PROVE Spec => []RightEvent
<1>1. IInv => RightEvent
  BY Gives
<1> QED
  BY <1>1, Inductive, PTL

\* However the packets cut the stream, and wherever _rpos was left, a line that
\* read("*l") gives has no line end inside it.
THEOREM LinesAreWhole == ASSUME TcpAssumption PROVE Spec => LineWhole
<1>1. IInv /\ [Next]_vars => [LineStep]_connVars
  BY LineStepHolds DEF IInv
<1> QED
  BY <1>1, Inductive, PTL DEF Spec, LineWhole, vars

=============================================================================
