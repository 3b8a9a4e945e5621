----------------------------- MODULE Tls_proofs -----------------------------
(***************************************************************************)
(* Proofs about a connection of lua/nfl/tls.lua, for streams, buffers,     *)
(* records and handshakes of any size: type correctness, that no byte is   *)
(* lost, repeated or moved between the socket and the program in either    *)
(* direction, that the socket waits for what libtls or the coroutine waits *)
(* for, and that a line has no end of line inside.                         *)
(***************************************************************************)
EXTENDS Tls, Connection_proofs, FiniteSetTheorems

(* The inductive invariant, by the parts of the state it is about.          *)

Control ==
  /\ loop = "co" => at \in {"app", "read", "mode", "remove"} \cup Calls
  /\ at \in {"app", "read", "mode", "remove"} => loop = "co"
  /\ loop \in {"co", "timers"} => queued = Nil
  /\ at = "start" => loop = "run" /\ queued # Nil /\ want = "r"
  /\ at = "ended" => want = "none" /\ loop \notin {"hangup", "read", "write"}
  /\ loop = "hangup" => link = "down"
  /\ loop = "read" => want = "r"
  /\ loop = "write" => want = "w"
  /\ awaits # "none" <=> at \in Calls /\ loop # "co"
  /\ at = "connect" => want = "w" \/ (want = "r" /\ loop = "run" /\ queued # Nil)
  /\ at = "connect" /\ queued # Nil /\ want = "w" => queued.kind = "false" \/ eof

\* Before it is up, a connection has carried nothing.
Connecting ==
  link = "connecting" =>
    /\ at \in {"connect", "remove", "ended"}
    /\ ~ eof /\ loop \notin {"hangup", "read", "write"}
    /\ queued = Nil \/ queued.kind = "false"
    /\ written = 0 /\ writebuf = << >> /\ leaving = << >> /\ peerGot = << >>
    /\ record = << >>

\* Only at the end has the stream no buffer.
Ending ==
  /\ readbuf = Nil => eof
  /\ at = "decrypt" \/ (at = "read" /\ tried) => readbuf # Nil

\* The socket waits for bytes, except while libtls waits for room, and after a
\* call that met the end.
Waiting ==
  /\ ~ broken => /\ loop = "co" \/ at = "nap" => want = "r" \/ eof \/ at = "remove"
                 /\ awaits = "input" => want = "r"
  /\ awaits = "output" => \/ want = "w" /\ (queued # Nil /\ ~ broken => eof)
                          \/ want = "r" /\ queued # Nil /\ loop = "run"

\* How many pieces of the peer's the first n steps of the handshake take.
Ins(n) == Cardinality({k \in 1 .. n : Script[k] = "in"})

\* Until libtls has shaken hands, nothing can be read or sent.
Greeting ==
  ~ Shaken =>
    /\ input \o arrived = SubSeq(Coming, Ins(shake) + 1, peerSent) /\ Ins(shake) <= peerSent
    /\ Bytes(readbuf) = << >> /\ rpos = 1 /\ plain = << >>
    /\ record = << >> /\ size = 0 /\ unit = Len(piece)

\* What _drain() has left is the end of a unit at the front of the buffer, and
\* a record holds the front of that, after a piece that holds nothing.
PieceKept == piece = SubSeq(writebuf, unit - Len(piece) + 1, unit) /\ Len(piece) <= unit
Sealed ==
  link = "up" => \/ record = << >> /\ size = 0
                 \/ /\ at = "send" /\ Shaken
                    /\ record \in {<< << >>, Take(piece, size) >>, << Take(piece, size) >>}
Idle == at # "send" => unit = 0 /\ size = 0
Sending == PieceKept /\ Idle /\ Sealed

\* No line end is before _rpos, which stays only for a line that is looked for.
NoEnd == NoEndBefore(readbuf, Len(readbuf) + 1)
Lines ==
  ~ eof =>
    /\ NoEndBefore(readbuf, rpos)
    /\ at = "decrypt" /\ format.kind = "line" => NoEnd /\ rpos <= Len(readbuf) + 1
    /\ rpos = 1 \/ (at \in {"read", "decrypt"} /\ format.kind = "line")

Places ==
  /\ link \in {"connecting", "up", "down"}
  /\ peerSent \in 0 .. Len(Coming)
  /\ want \in {"r", "w", "none"}
  /\ loop \in {"timers", "wait", "hangup", "read", "write", "run", "co"}
  /\ at \in {"start", "connect", "nap", "app", "read", "mode", "shake", "decrypt", "send",
             "close", "remove", "ended"}
  /\ format \in Formats /\ mode \in Modes
  /\ then \in {"app", "mode", "close"}
  /\ shake \in 0 .. Len(Script)
  /\ awaits \in {"none", "input", "output"}
ComingIn ==
  /\ queued = Nil \/ queued \in [kind : {"data", "true", "false", "nil"}, bytes : InBytes]
  /\ readbuf = Nil \/ readbuf \in InBytes
  /\ arrived \in Pieces(DOMAIN Is) /\ input \in Pieces(DOMAIN Is)
  /\ plain \in InBytes /\ used \in InBytes
GoingOut ==
  /\ writebuf \in OutBytes /\ piece \in OutBytes
  /\ leaving \in Pieces(1 .. Out) /\ peerGot \in Pieces(1 .. Out) /\ record \in Pieces(1 .. Out)
  /\ unit \in 0 .. Len(writebuf) /\ written \in 0 .. Out
  /\ size \in 0 .. Len(piece)
Flags == {fin, armed, eof, tried, broken} \subseteq BOOLEAN
Position == rpos \in 1 .. Len(Is) + 1

LEMMA TypeParts == TypeOK <=> Places /\ ComingIn /\ GoingOut /\ Flags /\ Position
BY Zenon DEF TypeOK, ConnectionTypeOK, Places, ComingIn, GoingOut, Flags, Position

-----------------------------------------------------------------------------
LEMMA Values ==
  ASSUME TlsAssumption
  PROVE  /\ Nil # True /\ True.kind = "true" /\ True.bytes = << >>
         /\ Nil # False /\ False.kind = "false" /\ False.bytes = << >>
         /\ Nil # Nothing /\ Nothing.kind = "nil" /\ Nothing.bytes = << >>
         /\ \A b \in Seq(Nat) : Nil # Packet(b) /\ Packet(b).kind = "data" /\ Packet(b).bytes = b
         /\ << >> \in Seq(Nat) /\ Nil # << >> /\ DOMAIN Is \subseteq Nat /\ InBytes \subseteq Seq(Nat)
         /\ Nil \notin Seq(Nat) /\ Nil \notin InBytes
<1>1. << >> \in Seq(Nat) /\ DOMAIN Is \subseteq Nat /\ Nil \notin Seq(Nat)
  BY DEF TlsAssumption, ConnectionAssumption
<1>2. InBytes \subseteq Seq(Nat)
  BY <1>1 DEF InBytes
<1>3. Nil \notin [kind : {"data", "true", "false", "nil"}, bytes : Seq(Nat)]
  BY DEF TlsAssumption, ConnectionAssumption
<1>4. ASSUME NEW k \in {"data", "true", "false", "nil"}, NEW b \in Seq(Nat)
      PROVE  Nil # Value(k, b) /\ Value(k, b).kind = k /\ Value(k, b).bytes = b
  BY <1>3 DEF Value
<1> QED
  BY <1>1, <1>2, <1>4 DEF Packet, True, False, Nothing

Still == UNCHANGED tlsVars
Handled == GoTo("run") /\ UNCHANGED <<peerVars, leaving, armed, broken, at, readVars, writeVars,
                                      shake, plain, record, size, awaits>>
Run == UNCHANGED <<peerVars, sockVars, readVars, writeVars, input, shake, plain, record, size>>

LEMMA ReceiveDoes ==
  ASSUME Receive, Handled
  PROVE  /\ loop = "read" /\ loop' = "run"
         /\ \/ /\ input' = input \o arrived /\ arrived' = << >> /\ UNCHANGED eof
               /\ queued' = (IF queued = Nil THEN Nothing ELSE queued)
            \/ /\ UNCHANGED <<arrived, input>> /\ eof'
               /\ queued' = (IF queued = Nil THEN Nothing ELSE queued)
            \/ /\ link = "down" /\ UNCHANGED <<arrived, input, eof>>
               /\ queued' = (IF queued = Nil THEN False ELSE queued)
         /\ UNCHANGED <<want, peerVars, leaving, broken, at, readVars, writeVars,
                        shake, plain, record, size, awaits>>
BY Zenon DEF Receive, Handled, GoTo, Schedule

LEMMA HangupDoes ==
  ASSUME Hangup, Handled, UNCHANGED input
  PROVE  /\ loop = "hangup" /\ loop' = "run" /\ eof'
         /\ queued' = (IF queued = Nil THEN Packet(<< >>) ELSE queued)
         /\ UNCHANGED <<want, peerVars, sockVars, broken, at, readVars, writeVars, tlsVars>>
BY Zenon DEF Hangup, Handled, GoTo, Schedule, sockVars, tlsVars

LEMMA WritableDoes ==
  ASSUME Writable, Handled, UNCHANGED input
  PROVE  /\ loop = "write" /\ loop' = "run" /\ want' = "r"
         /\ queued' = (IF queued = Nil THEN True ELSE queued)
         /\ UNCHANGED <<eof, peerVars, sockVars, broken, at, readVars, writeVars, tlsVars>>
BY Zenon DEF Writable, Handled, GoTo, Schedule, sockVars, BackToReading, tlsVars

LEMMA LookDoes ==
  ASSUME LookAtBuffer
  PROVE  \E look :
           /\ look = Try(format, readbuf, rpos, eof, tried)
           /\ readbuf' = look.buf /\ rpos' = look.rpos /\ used' = used \o look.used
           /\ loop = "co" /\ loop' = "co" /\ at = "read"
           /\ \/ look.more /\ at' = "decrypt"
              \/ ~ look.more /\ at' = "app"
           /\ UNCHANGED <<sockVars, want, queued, armed, broken, eof, format, tried, writeVars>>
BY Zenon DEF LookAtBuffer, Look, Go, Does

LEMMA LookTyped ==
  ASSUME TlsAssumption, TypeOK, Ending, at = "read"
  PROVE  LookKeeps(DOMAIN Is, Try(format, readbuf, rpos, eof, tried))
<1>1. /\ readbuf = Nil \/ readbuf \in Seq(DOMAIN Is)
      /\ format \in [kind : {"bytes", "line", "block", "all"}, n : Nat]
  BY DEF TypeOK, ConnectionTypeOK, InBytes, TlsAssumption, ConnectionAssumption
<1>2. Nil \notin Seq(DOMAIN Is)
  BY Values DEF InBytes
<1> QED
  BY <1>1, <1>2, TryKeeps DEF Ending

-----------------------------------------------------------------------------
LEMMA ControlStep ==
  ASSUME TlsAssumption, TypeOK, Control, [Next]_vars PROVE Control'
<1> USE Values DEF Control, Calls
<1>0. << >> \in Seq(Nat) /\ awaits \in {"none", "input", "output"} /\ then \in {"app", "mode", "close"}
  BY DEF TypeOK, ConnectionTypeOK
<1>1. CASE Environment
  BY <1>1 DEF Environment, Peer, LinkUp, LinkDown, PeerSends, PeerShuts, PeerReads, loopVars, sockVars, tlsVars
<1>2. CASE TimerDue /\ Aside /\ Still
  BY <1>0, <1>2, TimerDueDoes DEF peerVars, Still, tlsVars
<1>3. CASE NoTimerDue /\ Aside /\ Still
  BY <1>3 DEF NoTimerDue, Aside, GoTo, peerVars, Still, tlsVars
<1>4. CASE Wait /\ Aside /\ Still
  BY <1>4, WaitDoes DEF peerVars, Still, tlsVars
<1>5. CASE Hangup /\ Handled /\ UNCHANGED input
  BY <1>5, HangupDoes DEF peerVars, tlsVars
<1>6. CASE Receive /\ Handled
  <2>1. at \notin {"start", "connect", "ended"}
    BY <1>6, ReceiveDoes
  <2>2. loop' = "run" /\ UNCHANGED <<want, at, awaits, link>> /\ loop # "co"
    BY <1>6, ReceiveDoes DEF peerVars
  <2> QED
    BY <2>1, <2>2
<1>7. CASE Writable /\ Handled /\ UNCHANGED input
  BY <1>7, WritableDoes DEF peerVars, tlsVars
<1>8. CASE RunStep
  <2>1. CASE Start /\ UNCHANGED awaits
    BY <2>1, <1>8 DEF RunStep, Start, Resumed, GoTo, peerVars
  <2>2. CASE ConnectDone
    BY <2>2, <1>8 DEF RunStep, ConnectDone, Resumed, GoTo, peerVars
  <2>3. CASE Again
    BY <2>3, <1>8 DEF RunStep, Again, Resumed, GoTo, peerVars
  <2>4. CASE WakeUp
    BY <2>4, <1>8 DEF RunStep, WakeUp, Resumed, GoTo, peerVars
  <2>5. CASE EndRun /\ UNCHANGED awaits
    BY <2>5, <1>8 DEF RunStep, EndRun, GoTo, peerVars
  <2> QED
    BY <1>8, <2>1, <2>2, <2>3, <2>4, <2>5 DEF RunStep
<1>9. CASE CoStep
  <2>0. UNCHANGED link
    BY <1>9 DEF CoStep, peerVars
  <2>1. CASE Ioing /\ Still
    BY <2>0, <2>1 DEF Ioing, SetTimer, Read, Write, Mode, Flush, StartDrain, Does, Go, Still, tlsVars
  <2>2. CASE LookAtBuffer /\ Still
    BY <2>0, <2>2, LookDoes DEF Still, tlsVars
  <2>3. CASE Enter /\ Still
    BY <2>0, <2>3 DEF Enter, Does, Go, Yield, GoTo, Still, tlsVars
  <2>4. CASE ShakeIn \/ ShakeOut \/ Decode \/ Seal \/ SendPiece
    BY <2>0, <2>4 DEF ShakeIn, ShakeOut, Decode, Seal, SendPiece, InCall, Stay, loopVars, Does
  <2>5. CASE WantInput \/ WantOutput
    BY <2>0, <2>5 DEF WantInput, WantOutput, InCall, Yield, GoTo, WaitToWrite
  <2>6. CASE HandshakeDone \/ Refilled \/ RefillEnds
    BY <2>0, <2>6 DEF HandshakeDone, Refilled, RefillEnds, Does, Go, tlsVars
  <2>7. CASE SendAll
    BY <1>0, <2>0, <2>7 DEF SendAll, SendLast, Does, Drained, Go
  <2>8. CASE SendSome
    BY <2>0, <2>8 DEF SendSome, SendLast, Does, Yield, GoTo, WaitToWrite
  <2>9. CASE CallFails
    BY <2>0, <2>9 DEF CallFails, InCall, NotDrained, Go
  <2>10. CASE CloseSocket \/ RemoveSocket
    BY <2>0, <2>10 DEF CloseSocket, RemoveSocket, Does, EndSocket, Yield, GoTo, tlsVars
  <2> QED
    BY <1>9, <2>1, <2>2, <2>3, <2>4, <2>5, <2>6, <2>7, <2>8, <2>9, <2>10 DEF CoStep, CallStep, Still
<1>10. CASE UNCHANGED vars
  BY <1>10 DEF vars, connVars, peerVars, sockVars, loopVars, tlsVars
<1> QED
  BY <1>1, <1>2, <1>3, <1>4, <1>5, <1>6, <1>7, <1>8, <1>9, <1>10
     DEF Next, Program, LoopStep, Handle, Aside, Handled, Still

LEMMA ConnectingStep ==
  ASSUME TlsAssumption, TypeOK, Control, Connecting, [Next]_vars PROVE Connecting'
<1> USE Values DEF Connecting
<1>1. CASE Environment
  BY <1>1 DEF Environment, Peer, LinkUp, LinkDown, PeerSends, PeerShuts, PeerReads, loopVars, writeVars,
              sockVars, tlsVars
<1>2. CASE TimerDue /\ Aside /\ Still
  BY <1>2, TimerDueDoes DEF peerVars, sockVars, writeVars, Still, tlsVars
<1>3. CASE NoTimerDue /\ Aside /\ Still
  BY <1>3 DEF NoTimerDue, Aside, GoTo, peerVars, sockVars, writeVars, Still, tlsVars
<1>4. CASE Wait /\ Aside /\ Still
  BY <1>4, WaitDoes DEF peerVars, sockVars, writeVars, Control, Still, tlsVars
<1>5. CASE Handle
  BY <1>5 DEF Handle, Hangup, Receive, Writable, peerVars
<1>6. CASE RunStep
  <2>0. UNCHANGED <<link, written, writebuf, leaving, peerGot, record>>
    BY <1>6 DEF RunStep, peerVars, sockVars, writeVars
  <2>1. CASE Start
    BY <2>0, <2>1 DEF Start, Resumed, GoTo
  <2>2. CASE ConnectDone
    BY <2>0, <2>2 DEF ConnectDone, Resumed, GoTo
  <2>3. CASE Again
    BY <2>0, <2>3 DEF Again, Resumed, GoTo, Calls
  <2>4. CASE WakeUp
    BY <2>0, <2>4 DEF WakeUp, Resumed, GoTo
  <2>5. CASE EndRun
    BY <2>0, <2>5 DEF EndRun, GoTo
  <2> QED
    BY <1>6, <2>1, <2>2, <2>3, <2>4, <2>5 DEF RunStep
<1>7. CASE CoStep
  <2>0. UNCHANGED <<link, peerGot>>
    BY <1>7 DEF CoStep, peerVars
  <2>1. CASE RemoveSocket
    BY <2>0, <2>1 DEF RemoveSocket, Does, EndSocket, Yield, GoTo, sockVars, writeVars, tlsVars
  <2>2. CASE ~ RemoveSocket
    <3>1. at \notin {"connect", "remove", "ended"}
      BY <1>7, <2>2 DEF CoStep, CallStep, Ioing, SetTimer, Read, Write, Mode, Flush, LookAtBuffer, Look, Enter, Does,
         ShakeIn, ShakeOut, WantInput, WantOutput, HandshakeDone, Decode, Refilled, RefillEnds,
         Seal, SendPiece, SendAll, SendSome, SendLast, CallFails, CloseSocket, InCall, Calls
    <3> QED
      BY <2>0, <3>1
  <2> QED
    BY <2>1, <2>2
<1>8. CASE UNCHANGED vars
  BY <1>8 DEF vars, connVars, peerVars, sockVars, loopVars, writeVars, tlsVars
<1> QED
  BY <1>1, <1>2, <1>3, <1>4, <1>5, <1>6, <1>7, <1>8 DEF Next, Program, LoopStep, Aside, Still

LEMMA EndingStep ==
  ASSUME TlsAssumption, TypeOK, Control, Ending, [Next]_vars PROVE Ending'
<1> USE Values DEF Ending
<1>a. ASSUME UNCHANGED <<readbuf, tried>>, eof => eof', at' \in {"decrypt", "read"} => at' = at PROVE Ending'
  BY <1>a
<1>1. CASE Environment
  BY <1>a, <1>1 DEF Environment, Peer, readVars
<1>2. CASE LoopStep /\ Still
  BY <1>a, <1>2 DEF LoopStep, TimerDue, NoTimerDue, Wait, readVars
<1>3. CASE Hangup /\ Handled /\ UNCHANGED input
  BY <1>a, <1>3, HangupDoes DEF readVars
<1>4. CASE Receive /\ Handled
  BY <1>a, <1>4, ReceiveDoes DEF readVars
<1>5. CASE Writable /\ Handled /\ UNCHANGED input
  BY <1>a, <1>5, WritableDoes DEF readVars
<1>6. CASE RunStep
  BY <1>a, <1>6 DEF RunStep, Start, ConnectDone, Again, WakeUp, EndRun, Resumed, readVars, Calls
<1>7. CASE CoStep
  <2>0. then \in {"app", "mode", "close"}
    BY DEF TypeOK, ConnectionTypeOK
  <2>1. CASE SetTimer \/ Write \/ Mode \/ Flush
    BY <1>a, <2>1 DEF SetTimer, Write, Mode, Flush, StartDrain, Does, Go, readVars
  <2>2. CASE Read
    BY <2>2 DEF Read, Go
  <2>3. CASE LookAtBuffer
    <3>1. PICK look : /\ look = Try(format, readbuf, rpos, eof, tried)
                      /\ readbuf' = look.buf /\ at = "read"
                      /\ \/ look.more /\ at' = "decrypt"
                         \/ ~ look.more /\ at' = "app"
                      /\ UNCHANGED <<eof, tried>>
      BY <2>3, LookDoes
    <3>2. look.buf = Nil => eof
      BY <3>1, LookTyped DEF LookKeeps
    <3>3. look.more => look.buf = readbuf /\ readbuf # Nil
      BY <3>1, LookTyped DEF LookKeeps
    <3> QED
      BY <3>1, <3>2, <3>3
  <2>4. CASE Enter
    BY <1>a, <2>4 DEF Enter, Go, Yield, readVars
  <2>5. CASE ShakeIn \/ ShakeOut \/ WantInput \/ WantOutput \/ HandshakeDone \/ Decode
    BY <1>a, <2>5 DEF ShakeIn, ShakeOut, WantInput, WantOutput, HandshakeDone, Decode, Stay, Yield, Go, readVars
  <2>6. CASE Refilled
    <3>1. readbuf # Nil
      BY <2>6 DEF Refilled, Does
    <3>2. readbuf \in Seq(Nat) /\ plain \in Seq(Nat)
      BY <3>1 DEF TypeOK, ConnectionTypeOK
    <3> DEFINE n == Least(BufferSize, Len(plain))
    <3>3. n \in 0 .. Len(plain)
      BY <3>2 DEF Least, TlsAssumption
    <3>4. Take(plain, n) \in Seq(Nat)
      BY <3>2, <3>3, TakeDrop
    <3>5. readbuf' = readbuf \o Take(plain, n) /\ at' = "read" /\ eof' = eof
      BY <2>6 DEF Refilled, AddToBuffer, Go
    <3> HIDE DEF n
    <3>6. readbuf' \in Seq(Nat)
      BY <3>2, <3>4, <3>5, Joined
    <3> QED
      BY <3>5, <3>6
  <2>7. CASE RefillEnds
    BY <2>7 DEF RefillEnds, Does, Go
  <2>8. CASE Seal \/ SendPiece \/ SendAll \/ SendSome
    BY <1>a, <2>0, <2>8 DEF Seal, SendPiece, SendAll, SendSome, SendLast, Drained, Stay, Yield, Go, Does, readVars
  <2>9. CASE CallFails
    BY <1>a, <2>9 DEF CallFails, NotDrained, Go, readVars
  <2>10. CASE CloseSocket \/ RemoveSocket
    BY <1>a, <2>10 DEF CloseSocket, RemoveSocket, EndSocket, Yield, readVars
  <2> QED
    BY <1>7, <2>1, <2>2, <2>3, <2>4, <2>5, <2>6, <2>7, <2>8, <2>9, <2>10 DEF CoStep, CallStep, Ioing
<1>8. CASE UNCHANGED vars
  BY <1>a, <1>8 DEF vars, connVars, readVars
<1> QED
  BY <1>1, <1>2, <1>3, <1>4, <1>5, <1>6, <1>7, <1>8 DEF Next, Program, Handle, Handled, Still

\* What a timer has broken is not mended.
LEMMA BrokenStays == ASSUME [Next]_vars, broken PROVE broken'
<1>1. CASE LoopStep
  BY <1>1, Zenon DEF LoopStep, TimerDue, NoTimerDue, Wait
<1>2. CASE Environment \/ Handle \/ UNCHANGED vars
  BY <1>2, Zenon DEF Environment, Peer, Handle, vars, connVars, loopVars
<1>3. CASE RunStep
  BY <1>3, Zenon DEF RunStep, Start, ConnectDone, Again, WakeUp, EndRun
<1>4. CASE CoStep
  BY <1>4, Zenon DEF CoStep, CallStep, Ioing, SetTimer, Read, Write, Mode, Flush, StartDrain, Go, LookAtBuffer, Look,
     Enter, Yield, ShakeIn, ShakeOut, WantInput, WantOutput, HandshakeDone, Decode, Refilled, RefillEnds, Stay, loopVars,
     Seal, SendPiece, SendAll, SendSome, Drained, CallFails, NotDrained, CloseSocket, RemoveSocket, EndSocket
<1> QED
  BY <1>1, <1>2, <1>3, <1>4, Zenon DEF Next, Program

LEMMA WaitingStep ==
  ASSUME TlsAssumption, TypeOK, Control, Connecting, Waiting, [Next]_vars PROVE Waiting'
<1> USE Values DEF Waiting
<1>0. /\ awaits \in {"none", "input", "output"} /\ then \in {"app", "mode", "close"} /\ << >> \in Seq(Nat)
      /\ broken \in BOOLEAN
      /\ broken => broken'
  BY BrokenStays DEF TypeOK, ConnectionTypeOK
<1>1. CASE Environment
  BY <1>1 DEF Environment, Peer, loopVars, tlsVars
<1>2. CASE TimerDue /\ Aside /\ Still
  <2>1. awaits # "none" => broken'
    BY <1>2, TimerDueDoes DEF Control, Calls
  <2>2. loop' = "wait" /\ loop = "timers" /\ UNCHANGED <<want, eof, at, awaits>>
    BY <1>2, TimerDueDoes DEF Still, tlsVars
  <2> QED
    BY <1>0, <2>1, <2>2
<1>3. CASE NoTimerDue /\ Aside /\ Still
  BY <1>3 DEF NoTimerDue, Aside, GoTo, Still, tlsVars
<1>4. CASE Wait /\ Aside /\ Still
  BY <1>4, WaitDoes DEF Still, tlsVars
<1>5. CASE Hangup /\ Handled /\ UNCHANGED input
  BY <1>5, HangupDoes DEF tlsVars
<1>6. CASE Receive /\ Handled
  <2>1. want = "r" /\ awaits # "output"
    BY <1>6, ReceiveDoes DEF Control
  <2>2. loop' = "run" /\ UNCHANGED <<want, at, awaits>>
    BY <1>6, ReceiveDoes
  <2> QED
    BY <2>1, <2>2
<1>7. CASE Writable /\ Handled /\ UNCHANGED input
  BY <1>7, WritableDoes DEF tlsVars
<1>8. CASE RunStep
  <2>1. CASE Start /\ UNCHANGED awaits
    BY <1>0, <2>1 DEF Start, Resumed, GoTo, Control, Calls
  <2>2. CASE ConnectDone
    <3>1. /\ loop = "run" /\ at = "connect" /\ queued # Nil /\ UNCHANGED <<want, eof, awaits>> /\ loop' = "co"
          /\ (at' = "remove" \/ (eof /\ at' = "close") \/ (at' = "app" /\ queued.kind # "false" /\ ~ eof))
      BY <2>2 DEF ConnectDone, Resumed, GoTo
    <3>2. awaits = "none"
      BY <1>0, <3>1 DEF Control, Calls
    <3>3. CASE at' = "remove" \/ (eof /\ at' = "close")
      BY <3>1, <3>2, <3>3
    <3>4. CASE at' = "app" /\ queued.kind # "false" /\ ~ eof
      BY <3>1, <3>2, <3>4 DEF Control
    <3> QED
      BY <3>1, <3>3, <3>4
  <2>3. CASE Again
    <3>1. UNCHANGED <<want, eof, broken, at>> /\ queued # Nil /\ awaits' = "none" /\ awaits # "none"
      BY <2>3 DEF Again, Resumed, Control
    <3> QED
      BY <1>0, <3>1
  <2>4. CASE WakeUp
    <3>1. UNCHANGED <<want, eof, broken, awaits>> /\ at = "nap" /\ awaits = "none"
      BY <2>4 DEF WakeUp, Resumed, Control, Calls
    <3> QED
      BY <1>0, <3>1
  <2>5. CASE EndRun /\ UNCHANGED awaits
    BY <2>5 DEF EndRun, GoTo
  <2> QED
    BY <1>8, <2>1, <2>2, <2>3, <2>4, <2>5 DEF RunStep
<1>9. CASE CoStep
  <2>0. awaits = "none" /\ queued = Nil /\ loop = "co" /\ UNCHANGED <<broken, queued>> /\ (eof => eof')
    <3>1. loop = "co"
      BY <1>9 DEF CoStep, CallStep, Ioing, SetTimer, Read, Write, Mode, Flush, LookAtBuffer, Look, Enter, Does,
         ShakeIn, ShakeOut, WantInput, WantOutput, HandshakeDone, Decode, Refilled, RefillEnds,
         Seal, SendPiece, SendAll, SendSome, SendLast, CallFails, CloseSocket, RemoveSocket, InCall
    <3>2. UNCHANGED <<broken, queued>> /\ (eof' = eof \/ eof' = TRUE)
      BY <1>9, Zenon DEF CoStep, CallStep, Ioing, SetTimer, Read, Write, Mode, Flush, StartDrain, Go, LookAtBuffer, Look,
         Enter, Yield, ShakeIn, ShakeOut, WantInput, WantOutput, HandshakeDone, Decode, Refilled, RefillEnds, Stay, loopVars,
         Seal, SendPiece, SendAll, SendSome, SendLast, Drained, CallFails, NotDrained, CloseSocket, RemoveSocket, EndSocket
    <3> QED
      BY <1>0, <3>1, <3>2 DEF Control
  <2>1. CASE UNCHANGED <<want, awaits>> /\ at # "remove" /\ at' # "remove"
    BY <2>0, <2>1
  <2>2. CASE Ioing /\ Still
    <3>1. UNCHANGED <<want, awaits>> /\ at # "remove" /\ at' # "remove"
      BY <2>2 DEF Ioing, SetTimer, Read, Write, Mode, Flush, StartDrain, Does, Go, Still, tlsVars
    <3> QED
      BY <2>1, <3>1
  <2>3. CASE (LookAtBuffer \/ Enter) /\ Still
    <3>1. UNCHANGED <<want, awaits>> /\ at # "remove" /\ at' # "remove"
      BY <2>3, LookDoes DEF Enter, Does, Go, Yield, Still, tlsVars
    <3> QED
      BY <2>1, <3>1
  <2>4. CASE ShakeIn \/ ShakeOut \/ Decode \/ Seal \/ SendPiece \/ HandshakeDone \/ Refilled \/ RefillEnds
    <3>1. UNCHANGED <<want, awaits>> /\ at # "remove" /\ at' # "remove"
      BY <2>4 DEF ShakeIn, ShakeOut, Decode, Seal, SendPiece, HandshakeDone, Refilled, RefillEnds,
         InCall, Calls, Stay, loopVars, Does, Go, tlsVars
    <3> QED
      BY <2>1, <3>1
  <2>5. CASE WantInput
    <3>1. want' = want /\ awaits' = "input" /\ loop' = "run" /\ ~ eof /\ at' = at /\ at \in Calls
      BY <2>5 DEF WantInput, InCall, Yield, GoTo
    <3> QED
      BY <2>0, <3>1 DEF Calls
  <2>6. CASE WantOutput
    <3>1. want' = "w" /\ awaits' = "output" /\ loop' = "run" /\ at' = at /\ at \in Calls
      BY <2>6 DEF WantOutput, InCall, Yield, GoTo, WaitToWrite
    <3> QED
      BY <2>0, <3>1 DEF Calls
  <2>7. CASE SendAll
    BY <1>0, <2>0, <2>7 DEF SendAll, SendLast, Does, Drained, Go
  <2>8. CASE SendSome
    <3>1. want' = "w" /\ awaits' = "output" /\ loop' = "run" /\ at' = "send"
      BY <2>8 DEF SendSome, Yield, GoTo, WaitToWrite
    <3> QED
      BY <2>0, <3>1
  <2>9. CASE CallFails
    BY <2>0, <2>9 DEF CallFails, InCall, Calls, NotDrained, Go
  <2>10. CASE CloseSocket \/ RemoveSocket
    BY <2>0, <2>10 DEF CloseSocket, RemoveSocket, EndSocket, Yield, GoTo, tlsVars
  <2> QED
    BY <1>9, <2>2, <2>3, <2>4, <2>5, <2>6, <2>7, <2>8, <2>9, <2>10 DEF CoStep, CallStep, Still
<1>10. CASE UNCHANGED vars
  BY <1>10 DEF vars, connVars, loopVars, tlsVars
<1> QED
  BY <1>1, <1>2, <1>3, <1>4, <1>5, <1>6, <1>7, <1>8, <1>9, <1>10
     DEF Next, Program, LoopStep, Handle, Aside, Handled, Still

-----------------------------------------------------------------------------
(* The types.                                                              *)

LEMMA FlagsStep ==
  ASSUME TlsAssumption, {fin, armed, eof, tried, broken} \subseteq BOOLEAN, [Next]_vars
  PROVE  {fin', armed', eof', tried', broken'} \subseteq BOOLEAN
<1>0. /\ fin \in BOOLEAN /\ armed \in BOOLEAN /\ eof \in BOOLEAN /\ tried \in BOOLEAN
      /\ broken \in BOOLEAN
  BY Zenon
<1>1. CASE Environment
  BY <1>0, <1>1, Zenon DEF Environment, Peer, LinkUp, LinkDown, PeerSends, PeerShuts, PeerReads, loopVars, readVars
<1>2. CASE TimerDue /\ Aside
  BY <1>0, <1>2, Zenon DEF TimerDue, Aside, peerVars, readVars
<1>3. CASE (NoTimerDue \/ Wait) /\ Aside
  BY <1>0, <1>3, Zenon DEF NoTimerDue, Wait, Aside, peerVars, readVars
<1>4. CASE (Hangup \/ Writable) /\ Handled
  BY <1>0, <1>4, Zenon DEF Hangup, Writable, Handled, peerVars, readVars
<1>5. CASE Receive /\ Handled
  BY <1>0, <1>5, Zenon DEF Receive, Handled, peerVars, readVars
<1>6. CASE RunStep
  BY <1>0, <1>6, Zenon DEF RunStep, Start, ConnectDone, Again, WakeUp, EndRun, peerVars, readVars
<1>7. CASE CoStep
  <2>0. UNCHANGED <<fin, broken>> /\ (eof' = eof \/ eof' = TRUE)
    BY <1>7, Zenon DEF CoStep, CallStep, Ioing, SetTimer, Read, Write, Mode, Flush, StartDrain, Go, LookAtBuffer, Look,
       Enter, Yield, ShakeIn, ShakeOut, WantInput, WantOutput, HandshakeDone, Decode, Refilled, RefillEnds, Stay, loopVars,
       Seal, SendPiece, SendAll, SendSome, SendLast, Drained, CallFails, NotDrained, CloseSocket, RemoveSocket, EndSocket,
       peerVars
  <2>1. CASE SetTimer \/ Read
    BY <1>0, <2>0, <2>1, Zenon DEF SetTimer, Read, Go, readVars
  <2>2. CASE Write \/ Mode \/ Flush \/ LookAtBuffer \/ Enter
    BY <1>0, <2>0, <2>2, Zenon DEF Write, Mode, Flush, StartDrain, Go, LookAtBuffer, Look, Enter, Yield, readVars
  <2>3. CASE CallStep
    BY <1>0, <2>0, <2>3, Zenon DEF CallStep, ShakeIn, ShakeOut, WantInput, WantOutput, HandshakeDone, Decode, Refilled,
       RefillEnds, Stay, loopVars, Seal, SendPiece, SendAll, SendSome, SendLast, Drained, CallFails, NotDrained,
       CloseSocket, RemoveSocket, EndSocket, Yield, Go, readVars
  <2> QED
    BY <1>7, <2>1, <2>2, <2>3, Zenon DEF CoStep, Ioing
<1>8. CASE UNCHANGED vars
  BY <1>0, <1>8, Zenon DEF vars, connVars, peerVars, loopVars, readVars
<1> QED
  BY <1>1, <1>2, <1>3, <1>4, <1>5, <1>6, <1>7, <1>8, Zenon DEF Next, Program, LoopStep, Handle, Aside, Handled

LEMMA ComingIs ==
  ASSUME TlsAssumption
  PROVE  /\ Coming \in Seq(Seq(DOMAIN Is)) /\ Coming \in Seq(Seq(Nat)) /\ Len(Coming) \in Nat
         /\ FlattenSeq(Coming) = Numbers(Len(Is)) /\ Len(Is) \in Nat
         /\ DOMAIN Coming = 1 .. Len(Coming) /\ \A k \in 1 .. Len(Coming) : Coming[k] \in Seq(DOMAIN Is)
         /\ Len(Script) \in Nat /\ DOMAIN Script = 1 .. Len(Script)
<1>1. Coming \in Seq(Seq(DOMAIN Is)) /\ FlattenSeq(Coming) = Numbers(Len(Is)) /\ Len(Is) \in Nat
      /\ Script \in Seq({"in", "out"})
  BY DEF TlsAssumption, ConnectionAssumption
<1>2. Seq(DOMAIN Is) \subseteq Seq(Nat)
  BY Values DEF InBytes
<1>3. Coming \in Seq(Seq(Nat))
  BY <1>1, <1>2, SeqMonotonic
<1> QED
  BY <1>1, <1>3

LEMMA PlacesStep ==
  ASSUME TlsAssumption, TypeOK, [Next]_vars PROVE Places'
<1>0. Places /\ Len(Coming) \in Nat /\ Len(Script) \in Nat
  BY TypeParts, ComingIs
<1> USE DEF Calls
<1>1. CASE Environment
  BY <1>0, <1>1 DEF Places, Environment, Peer, LinkUp, LinkDown, PeerSends, PeerShuts, PeerReads, loopVars, readVars,
                    writeVars, tlsVars
<1>2. CASE TimerDue /\ Aside /\ Still
  BY <1>0, <1>2, TimerDueDoes DEF Places, peerVars, readVars, writeVars, Still, tlsVars
<1>3. CASE NoTimerDue /\ Aside /\ Still
  BY <1>0, <1>3 DEF Places, NoTimerDue, Aside, GoTo, peerVars, readVars, writeVars, Still, tlsVars
<1>4. CASE Wait /\ Aside /\ Still
  BY <1>0, <1>4, WaitDoes DEF Places, peerVars, readVars, writeVars, Still, tlsVars
<1>5. CASE Handle
  BY <1>0, <1>5 DEF Places, Handle, Hangup, Receive, Writable, GoTo, BackToReading, peerVars, readVars, writeVars
<1>6. CASE RunStep
  BY <1>0, <1>6 DEF Places, RunStep, Start, ConnectDone, Again, WakeUp, EndRun, Resumed, GoTo,
                    peerVars, readVars, writeVars
<1>7. CASE CoStep
  <2>0. UNCHANGED <<link, peerSent>>
    BY <1>7 DEF CoStep, peerVars
  <2>1. CASE (SetTimer \/ Read \/ Write \/ Mode \/ Flush) /\ Still
    BY <1>0, <2>0, <2>1 DEF Places, SetTimer, Read, Write, Mode, Flush, StartDrain, Does, Go, readVars, writeVars,
                            Still, tlsVars
  <2>2. CASE LookAtBuffer /\ Still
    BY <1>0, <2>0, <2>2, LookDoes DEF Places, writeVars, Still, tlsVars
  <2>3. CASE Enter /\ Still
    BY <1>0, <2>0, <2>3 DEF Places, Enter, Go, Yield, GoTo, readVars, writeVars, Still, tlsVars
  <2>4. CASE ShakeIn \/ ShakeOut
    <3>1. shake + 1 \in 0 .. Len(Script)
      BY <1>0, <2>4 DEF Places, ShakeIn, ShakeOut, Shaking, Shaken
    <3> QED
      BY <1>0, <2>0, <2>4, <3>1 DEF Places, ShakeIn, ShakeOut, Stay, loopVars, readVars, writeVars
  <2>5. CASE WantInput \/ WantOutput \/ HandshakeDone \/ Decode \/ Refilled \/ RefillEnds
    BY <1>0, <2>0, <2>5 DEF Places, WantInput, WantOutput, WaitToWrite, HandshakeDone, Decode, Refilled, RefillEnds, InCall,
       Stay, loopVars, Go, Yield, GoTo, readVars, writeVars, tlsVars
  <2>6. CASE Seal \/ SendPiece \/ SendAll \/ SendSome
    BY <1>0, <2>0, <2>6 DEF Places, Seal, SendPiece, SendAll, SendSome, SendLast, Drained, WaitToWrite, Does,
       Stay, loopVars, Go, Yield, GoTo, readVars, writeVars
  <2>7. CASE CallFails \/ CloseSocket \/ RemoveSocket
    BY <1>0, <2>0, <2>7 DEF Places, CallFails, NotDrained, CloseSocket, RemoveSocket, EndSocket,
       Go, Yield, GoTo, readVars, writeVars, tlsVars
  <2> QED
    BY <1>7, <2>1, <2>2, <2>3, <2>4, <2>5, <2>6, <2>7 DEF CoStep, CallStep, Ioing, Still
<1>8. CASE UNCHANGED vars
  BY <1>0, <1>8 DEF Places, vars, connVars, peerVars, loopVars, readVars, writeVars, tlsVars
<1> QED
  BY <1>1, <1>2, <1>3, <1>4, <1>5, <1>6, <1>7, <1>8 DEF Next, Program, LoopStep, Aside, Still

LEMMA LeastIn == ASSUME NEW m \in Nat, NEW n \in Nat PROVE Least(m, n) \in 0 .. n /\ Least(m, n) <= m
BY DEF Least

LEMMA ComingInStep ==
  ASSUME TlsAssumption, TypeOK, Ending, [Next]_vars PROVE ComingIn'
<1>0. /\ queued = Nil \/ queued \in [kind : {"data", "true", "false", "nil"}, bytes : InBytes]
      /\ readbuf = Nil \/ readbuf \in InBytes
      /\ arrived \in Seq(InBytes) /\ input \in Seq(InBytes)
      /\ plain \in InBytes /\ used \in InBytes /\ << >> \in InBytes /\ << >> \in Seq(InBytes)
  BY TypeParts DEF ComingIn, InBytes, Pieces
<1> USE DEF Pieces
<1>i. InBytes = Seq(DOMAIN Is)
  BY DEF InBytes
<1>a. ASSUME UNCHANGED <<queued, readbuf, arrived, input, plain, used>> PROVE ComingIn'
  BY <1>0, <1>i, <1>a DEF ComingIn
<1>1. CASE Environment
  <2>1. UNCHANGED <<queued, readbuf, used, input, plain>>
    BY <1>1 DEF Environment, Peer, loopVars, readVars, tlsVars
  <2>2. CASE PeerSends
    <3>0. peerSent \in 0 .. Len(Coming) /\ Len(Coming) \in Nat
      BY TypeParts, ComingIs DEF Places
    <3>1. peerSent + 1 \in 1 .. Len(Coming) /\ arrived' = Append(arrived, Coming[peerSent + 1])
      <4>1. peerSent < Len(Coming) /\ peerSent' = peerSent + 1 /\ arrived' = Append(arrived, Coming[peerSent'])
        BY <2>2 DEF PeerSends
      <4> QED
        BY <3>0, <4>1
    <3>2. Coming[peerSent + 1] \in InBytes
      BY <1>i, <3>1, ComingIs
    <3>3. arrived' \in Seq(InBytes)
      BY <1>0, <3>1, <3>2
    <3> QED
      BY <1>0, <1>i, <2>1, <3>3 DEF ComingIn
  <2>3. CASE LinkUp \/ LinkDown \/ PeerShuts \/ PeerReads
    BY <1>a, <2>1, <2>3 DEF LinkUp, LinkDown, PeerShuts, PeerReads, sockVars
  <2> QED
    BY <1>1, <2>2, <2>3 DEF Environment, Peer
<1>2. CASE TimerDue /\ Aside /\ Still
  <2>1. queued' = Nil \/ queued' \in [kind : {"data", "true", "false", "nil"}, bytes : InBytes]
    BY <1>0, <1>2, TimerDueDoes DEF False, Value
  <2>2. UNCHANGED <<readbuf, arrived, input, plain, used>>
    BY <1>2, TimerDueDoes DEF sockVars, readVars, Still, tlsVars
  <2> QED
    BY <1>0, <1>i, <2>1, <2>2 DEF ComingIn
<1>3. CASE (NoTimerDue \/ Wait) /\ Aside /\ Still
  BY <1>a, <1>3 DEF NoTimerDue, Wait, Aside, sockVars, readVars, Still, tlsVars
<1>4. CASE Hangup /\ Handled /\ UNCHANGED input
  <2>1. queued' = Nil \/ queued' \in [kind : {"data", "true", "false", "nil"}, bytes : InBytes]
    BY <1>0, <1>4, HangupDoes DEF Packet, Value
  <2>2. UNCHANGED <<readbuf, arrived, input, plain, used>>
    BY <1>4, HangupDoes DEF sockVars, readVars, tlsVars
  <2> QED
    BY <1>0, <1>i, <2>1, <2>2 DEF ComingIn
<1>5. CASE Receive /\ Handled
  <2>1. input \o arrived \in Seq(InBytes)
    BY <1>0
  <2>2. queued' = Nil \/ queued' \in [kind : {"data", "true", "false", "nil"}, bytes : InBytes]
    BY <1>0, <1>5, ReceiveDoes DEF False, Nothing, Value
  <2>3. arrived' \in Seq(InBytes) /\ input' \in Seq(InBytes)
    BY <1>0, <1>5, <2>1, ReceiveDoes
  <2>4. UNCHANGED <<readbuf, used, plain>>
    BY <1>5, ReceiveDoes DEF readVars
  <2> QED
    BY <1>0, <1>i, <2>2, <2>3, <2>4 DEF ComingIn
<1>6. CASE Writable /\ Handled /\ UNCHANGED input
  <2>1. queued' = Nil \/ queued' \in [kind : {"data", "true", "false", "nil"}, bytes : InBytes]
    BY <1>0, <1>6, WritableDoes DEF True, Value
  <2>2. UNCHANGED <<readbuf, arrived, input, plain, used>>
    BY <1>6, WritableDoes DEF sockVars, readVars, tlsVars
  <2> QED
    BY <1>0, <1>i, <2>1, <2>2 DEF ComingIn
<1>7. CASE RunStep
  <2>1. UNCHANGED <<readbuf, arrived, input, plain, used>>
    BY <1>7 DEF RunStep, sockVars, readVars
  <2>2. queued' = Nil \/ queued' = queued
    BY <1>7 DEF RunStep, Start, ConnectDone, Again, WakeUp, EndRun, Resumed
  <2> QED
    BY <1>0, <1>i, <2>1, <2>2 DEF ComingIn
<1>8. CASE CoStep
  <2>1. CASE LookAtBuffer /\ Still
    <3>1. PICK look :
             /\ look = Try(format, readbuf, rpos, eof, tried)
             /\ readbuf' = look.buf /\ used' = used \o look.used
             /\ at = "read"
             /\ UNCHANGED <<sockVars, queued>>
      BY <2>1, LookDoes
    <3>2. look.used \in InBytes /\ (look.buf = Nil \/ look.buf \in InBytes)
      BY <3>1, LookTyped DEF LookKeeps, InBytes
    <3>3. used \o look.used \in InBytes
      BY <1>0, <3>2 DEF InBytes
    <3> QED
      BY <1>0, <1>i, <2>1, <3>1, <3>2, <3>3 DEF ComingIn, sockVars, Still, tlsVars
  <2>2. CASE (Ioing \/ Enter) /\ Still
    BY <1>a, <2>2
       DEF Ioing, SetTimer, Read, Write, Mode, Flush, StartDrain, Enter, Go, Yield, sockVars, readVars, Still, tlsVars
  <2>3. CASE ShakeIn
    <3>1. Tail(input) \in Seq(InBytes)
      BY <1>0, <2>3 DEF ShakeIn
    <3>2. input' = Tail(input) /\ UNCHANGED <<queued, readbuf, arrived, plain, used>>
      BY <2>3 DEF ShakeIn, Stay, loopVars, sockVars, readVars
    <3> QED
      BY <1>0, <1>i, <3>1, <3>2 DEF ComingIn
  <2>4. CASE Decode
    <3>1. Tail(input) \in Seq(InBytes) /\ Head(input) \in InBytes
      BY <1>0, <2>4 DEF Decode
    <3>2. input' = Tail(input) /\ plain' = Head(input) /\ UNCHANGED <<queued, readbuf, arrived, used>>
      BY <2>4 DEF Decode, Stay, loopVars, sockVars, readVars
    <3> QED
      BY <1>0, <1>i, <3>1, <3>2 DEF ComingIn
  <2>5. CASE Refilled
    <3> DEFINE n == Least(BufferSize, Len(plain))
    <3>1. readbuf \in Seq(DOMAIN Is) /\ plain \in Seq(DOMAIN Is) /\ Len(plain) \in Nat
      BY <1>0, <1>i, <2>5 DEF Refilled, Does, Ending
    <3>2. n \in 0 .. Len(plain)
      BY <3>1, LeastIn DEF TlsAssumption
    <3>3. /\ readbuf' = readbuf \o Take(plain, n) /\ plain' = Drop(plain, n)
          /\ UNCHANGED <<queued, arrived, input, used>>
      BY <2>5 DEF Refilled, AddToBuffer, Go, sockVars
    <3> HIDE DEF n
    <3>4. Take(plain, n) \in Seq(DOMAIN Is) /\ Drop(plain, n) \in Seq(DOMAIN Is)
      BY <3>1, <3>2, TakeDrop
    <3> DEFINE more == Take(plain, n)
    <3> HIDE DEF more
    <3>5. readbuf \o more \in Seq(DOMAIN Is)
      BY <3>1, <3>4 DEF more
    <3> QED
      BY <1>0, <1>i, <3>3, <3>4, <3>5 DEF ComingIn, more
  <2>6. CASE RefillEnds
    <3>1. used \o Bytes(readbuf) \in InBytes
      <4>1. Bytes(readbuf) \in InBytes
        BY <1>0 DEF Bytes
      <4> QED
        BY <1>0, <4>1 DEF InBytes
    <3> QED
      BY <1>0, <1>i, <2>6, <3>1 DEF ComingIn, RefillEnds, Go, sockVars, tlsVars
  <2>7. CASE ShakeOut \/ WantInput \/ WantOutput \/ HandshakeDone \/ Seal \/ SendPiece \/ SendAll \/ SendSome
    BY <1>a, <2>7 DEF ShakeOut, WantInput, WantOutput, HandshakeDone, Seal, SendPiece, SendAll, SendSome, SendLast,
       Drained, Stay, loopVars, Go, Yield, sockVars, readVars, tlsVars
  <2>8. CASE CallFails \/ CloseSocket \/ RemoveSocket
    BY <1>a, <2>8 DEF CallFails, NotDrained, CloseSocket, RemoveSocket, EndSocket, Go, Yield, sockVars, readVars, tlsVars
  <2> QED
    BY <1>8, <2>1, <2>2, <2>3, <2>4, <2>5, <2>6, <2>7, <2>8 DEF CoStep, CallStep, Still
<1>9. CASE UNCHANGED vars
  BY <1>a, <1>9 DEF vars, connVars, sockVars, loopVars, readVars, tlsVars
<1> QED
  BY <1>1, <1>2, <1>3, <1>4, <1>5, <1>6, <1>7, <1>8, <1>9 DEF Next, Program, LoopStep, Handle, Aside, Handled, Still

LEMMA FrontOfBuffer ==
  ASSUME TlsAssumption, TypeOK, Piece(mode, WSize, writebuf) # Nil
  PROVE  \E n \in 0 .. Len(writebuf) : Piece(mode, WSize, writebuf) = Take(writebuf, n)
<1>1. /\ writebuf \in Seq(1 .. Out) /\ mode \in {"no", "line", "full"} /\ WSize \in Nat
      /\ Nil \notin Seq(1 .. Out)
  <2>1. Nil \notin Seq(Nat)
    BY Values
  <2>2. ASSUME NEW S, S \subseteq Nat PROVE Seq(S) \subseteq Seq(Nat)
    BY <2>2, SeqMonotonic
  <2>3. 1 .. Out \subseteq Nat
    BY DEF TlsAssumption, ConnectionAssumption
  <2>4. writebuf \in Seq(1 .. Out)
    BY TypeParts DEF GoingOut, OutBytes
  <2>5. mode \in {"no", "line", "full"} /\ WSize \in Nat
    BY TypeParts DEF Places, TlsAssumption, ConnectionAssumption
  <2> QED
    BY <2>1, <2>2, <2>3, <2>4, <2>5
<1> QED
  BY <1>1, PieceIsFront

\* What goes out, and its parts.
LEMMA OutTyped ==
  ASSUME TlsAssumption, TypeOK
  PROVE  /\ writebuf \in Seq(1 .. Out) /\ piece \in Seq(1 .. Out)
         /\ leaving \in Seq(Seq(1 .. Out)) /\ peerGot \in Seq(Seq(1 .. Out)) /\ record \in Seq(Seq(1 .. Out))
         /\ unit \in 0 .. Len(writebuf) /\ written \in 0 .. Out
         /\ size \in 0 .. Len(piece) /\ Len(piece) \in Nat /\ Len(writebuf) \in Nat
         /\ Out \in Nat /\ Window \in Nat /\ MaxRecord \in Nat
BY TypeParts DEF GoingOut, OutBytes, Pieces, TlsAssumption, ConnectionAssumption

LEMMA GoingOutStep ==
  ASSUME TlsAssumption, TypeOK, Sending, [Next]_vars PROVE GoingOut'
<1> USE OutTyped DEF Pieces
<1>a. ASSUME UNCHANGED <<writebuf, unit, piece, leaving, peerGot, written, record, size>> PROVE GoingOut'
  BY <1>a DEF GoingOut, OutBytes
<1>b. ASSUME UNCHANGED <<writebuf, unit, piece, peerGot, written>>, size' = size \/ size' = 0,
             leaving' \in Seq(Seq(1 .. Out)), record' \in Seq(Seq(1 .. Out))
      PROVE  GoingOut'
  BY <1>b DEF GoingOut, OutBytes
<1>c. ASSUME NEW p \in Seq(1 .. Out) PROVE Append(leaving, p) \in Seq(Seq(1 .. Out))
  OBVIOUS
<1>d. << >> \in Seq(1 .. Out) /\ << >> \in Seq(Seq(1 .. Out))
  OBVIOUS
<1>e. record # << >> => /\ Head(record) \in Seq(1 .. Out) /\ Tail(record) \in Seq(Seq(1 .. Out))
                        /\ Append(leaving, Head(record)) \in Seq(Seq(1 .. Out))
  <2>1. record # << >> => Head(record) \in Seq(1 .. Out) /\ Tail(record) \in Seq(Seq(1 .. Out))
    OBVIOUS
  <2> QED
    BY <1>c, <2>1
<1>f. Len(record) > 0 => record # << >>
  OBVIOUS
<1>1. CASE Environment
  <2>1. UNCHANGED <<writebuf, piece, unit, written, record, size>>
    BY <1>1 DEF Environment, Peer, writeVars, tlsVars
  <2>2. leaving' \in Seq(Seq(1 .. Out)) /\ peerGot' \in Seq(Seq(1 .. Out))
    <3>1. CASE PeerReads
      <4>1. Head(leaving) \in Seq(1 .. Out) /\ Tail(leaving) \in Seq(Seq(1 .. Out))
        BY <3>1 DEF PeerReads
      <4>2. Append(peerGot, Head(leaving)) \in Seq(Seq(1 .. Out))
        BY <4>1
      <4> QED
        BY <3>1, <4>1, <4>2 DEF PeerReads
    <3>2. CASE LinkDown
      BY <1>d, <3>2 DEF LinkDown
    <3>3. CASE LinkUp \/ PeerSends \/ PeerShuts
      BY <3>3 DEF LinkUp, PeerSends, PeerShuts, sockVars
    <3> QED
      BY <1>1, <3>1, <3>2, <3>3 DEF Environment, Peer
  <2> QED
    BY <2>1, <2>2 DEF GoingOut, OutBytes
<1>2. CASE (LoopStep /\ Still) \/ Handle \/ RunStep \/ UNCHANGED vars
  BY <1>a, <1>2 DEF LoopStep, Still, Handle, Hangup, Writable, Receive, RunStep, vars, connVars, peerVars, sockVars,
                    writeVars, tlsVars
<1>3. CASE CoStep
  <2>0. peerGot' = peerGot
    BY <1>3 DEF CoStep, peerVars
  <2>1. CASE (SetTimer \/ Read \/ Enter) /\ Still
    BY <1>a, <2>0, <2>1 DEF SetTimer, Read, Enter, sockVars, writeVars, Still, tlsVars
  <2>2. CASE LookAtBuffer /\ Still
    BY <1>a, <2>0, <2>2, LookDoes DEF sockVars, writeVars, Still, tlsVars
  <2>3. CASE Write /\ Still
    <3>1. PICK n \in 1 .. Out - written :
             /\ writebuf' = writebuf \o [k \in 1 .. n |-> written + k]
             /\ written' = written + n
      BY <2>3 DEF Write
    <3>2. [k \in 1 .. n |-> written + k] \in Seq(1 .. Out) /\ Len([k \in 1 .. n |-> written + k]) = n
      OBVIOUS
    <3> DEFINE more == [k \in 1 .. n |-> written + k]
    <3> HIDE DEF more
    <3>3. writebuf \o more \in Seq(1 .. Out) /\ Len(writebuf \o more) = Len(writebuf) + n
      BY <3>2, ConcatProperties DEF more
    <3>4. UNCHANGED <<leaving, piece, unit, record, size>>
      BY <2>3 DEF Write, sockVars, Still, tlsVars
    <3>5. writebuf' = writebuf \o more /\ written' \in 0 .. Out
      BY <3>1 DEF more
    <3>6. Len(writebuf') \in Nat /\ unit \in 0 .. Len(writebuf') /\ writebuf' \in Seq(1 .. Out)
      <4>1. Len(writebuf') = Len(writebuf) + n /\ writebuf' \in Seq(1 .. Out)
        BY <3>3, <3>5, Zenon
      <4>2. n \in Nat /\ Len(writebuf) \in Nat /\ unit \in 0 .. Len(writebuf)
        OBVIOUS
      <4> QED
        BY <4>1, <4>2
    <3> QED
      BY <2>0, <3>4, <3>5, <3>6 DEF GoingOut, OutBytes
  <2>4. CASE Mode /\ Still
    <3> DEFINE bytes == Piece(mode, WSize, writebuf)
    <3>1. CASE bytes = Nil
      BY <1>a, <2>0, <2>4, <3>1 DEF Mode, sockVars, Still, tlsVars
    <3>2. CASE bytes # Nil
      <4>1. PICK n \in 0 .. Len(writebuf) : bytes = Take(writebuf, n)
        BY <3>2, FrontOfBuffer
      <4>2. piece' = bytes /\ unit' = Len(bytes) /\ UNCHANGED <<leaving, writebuf, written, record>> /\ size' = 0
        BY <2>4, <3>2 DEF Mode, Does, StartDrain, sockVars, Still, tlsVars, Sending, Idle
      <4>3. bytes \in Seq(1 .. Out) /\ Len(bytes) = n
        BY <4>1, TakeDrop
      <4> QED
        BY <2>0, <4>2, <4>3 DEF GoingOut, OutBytes
    <3> QED
      BY <3>1, <3>2
  <2>5. CASE Flush /\ Still
    <3>1. piece' = writebuf /\ unit' = Len(writebuf) /\ UNCHANGED <<leaving, writebuf, written, record>> /\ size' = 0
      BY <2>5 DEF Flush, Does, StartDrain, sockVars, Still, tlsVars, Sending, Idle
    <3> QED
      BY <2>0, <3>1 DEF GoingOut, OutBytes
  <2>6. CASE ShakeIn \/ WantInput \/ WantOutput \/ HandshakeDone \/ Decode \/ Refilled \/ RefillEnds \/ RemoveSocket
    BY <1>a, <2>0, <2>6 DEF ShakeIn, WantInput, WantOutput, HandshakeDone, Decode, Refilled, RefillEnds, RemoveSocket,
                            sockVars, writeVars, tlsVars
  <2>7. CASE ShakeOut
    BY <1>b, <1>c, <1>d, <2>0, <2>7 DEF ShakeOut, Send, writeVars
  <2>8. CASE Seal
    <3> DEFINE n == Least(MaxRecord, Len(piece))
    <3>1. n \in 0 .. Len(piece)
      BY LeastIn
    <3>2. record' = << << >>, Take(piece, n) >> /\ size' = n /\ UNCHANGED <<leaving, writebuf, unit, piece, written>>
      BY <2>8 DEF Seal, sockVars, writeVars
    <3> HIDE DEF n
    <3>3. Take(piece, n) \in Seq(1 .. Out)
      BY <3>1, TakeDrop
    <3>4. record' \in Seq(Seq(1 .. Out))
      BY <1>d, <3>2, <3>3
    <3> QED
      BY <2>0, <3>1, <3>2, <3>4 DEF GoingOut, OutBytes
  <2>9. CASE SendPiece
    BY <1>b, <1>e, <1>f, <2>0, <2>9 DEF SendPiece, Send, writeVars
  <2>10. CASE SendAll
    <3>1. Drop(writebuf, unit) \in Seq(1 .. Out)
      BY TakeDrop
    <3>2. /\ leaving' = Append(leaving, Head(record)) /\ record' = << >> /\ size' = 0 /\ written' = written
          /\ writebuf' = Drop(writebuf, unit) /\ piece' = << >> /\ unit' = 0
      BY <2>10 DEF SendAll, SendLast, Send, Drained, DropUnit
    <3>3. record # << >>
      BY <1>f, <2>10 DEF SendAll, SendLast
    <3> QED
      BY <1>d, <1>e, <2>0, <3>1, <3>2, <3>3 DEF GoingOut, OutBytes
  <2>11. CASE SendSome
    <3>1. Drop(piece, size) \in Seq(1 .. Out)
      BY TakeDrop
    <3>2. /\ leaving' = Append(leaving, Head(record)) /\ record' = << >> /\ size' = 0 /\ written' = written
          /\ piece' = Drop(piece, size) /\ UNCHANGED <<writebuf, unit>>
      BY <2>11 DEF SendSome, SendLast, Send
    <3>3. record # << >>
      BY <1>f, <2>11 DEF SendSome, SendLast
    <3> QED
      BY <1>d, <1>e, <2>0, <3>1, <3>2, <3>3 DEF GoingOut, OutBytes
  <2>12. CASE CallFails
    <3>1. /\ UNCHANGED <<leaving, record, written, writebuf>> /\ size' = 0
          /\ (piece' = << >> /\ unit' = 0) \/ UNCHANGED <<piece, unit>>
      BY <2>12 DEF CallFails, NotDrained, sockVars
    <3>2. unit' \in 0 .. Len(writebuf') /\ piece' \in Seq(1 .. Out) /\ size' \in 0 .. Len(piece')
      <4>1. CASE piece' = << >> /\ unit' = 0
        BY <1>d, <3>1, <4>1
      <4>2. CASE UNCHANGED <<piece, unit>>
        <5>1. size' \in 0 .. Len(piece)
          BY <3>1
        <5> QED
          BY <3>1, <4>2, <5>1
      <4> QED
        BY <3>1, <4>1, <4>2
    <3> QED
      BY <2>0, <3>1, <3>2 DEF GoingOut, OutBytes
  <2>13. CASE CloseSocket
    <3>1. leaving' = Append(leaving, << >>) \/ leaving' = leaving
      BY <2>13 DEF CloseSocket, Send
    <3> QED
      BY <1>b, <1>c, <1>d, <2>0, <2>13, <3>1 DEF CloseSocket, writeVars, tlsVars
  <2> QED
    BY <1>3, <2>1, <2>2, <2>3, <2>4, <2>5, <2>6, <2>7, <2>8, <2>9, <2>10, <2>11, <2>12, <2>13
       DEF CoStep, CallStep, Ioing, Still
<1> QED
  BY <1>1, <1>2, <1>3 DEF Next, Program, Still

LEMMA Parts ==
  ASSUME TlsAssumption, TypeOK
  PROVE  /\ used \in Seq(Nat) /\ Bytes(readbuf) \in Seq(Nat) /\ plain \in Seq(Nat)
         /\ used \o Bytes(readbuf) \in Seq(Nat) /\ Received \in Seq(Nat)
         /\ arrived \in Seq(Seq(Nat)) /\ input \in Seq(Seq(Nat)) /\ input \o arrived \in Seq(Seq(Nat))
         /\ peerSent \in 0 .. Len(Coming) /\ Len(Coming) \in Nat
         /\ readbuf # Nil => readbuf \in Seq(Nat) /\ Bytes(readbuf) = readbuf
<1>1. /\ used \in InBytes /\ Bytes(readbuf) \in InBytes /\ plain \in InBytes
      /\ peerSent \in 0 .. Len(Coming) /\ Len(Coming) \in Nat
      /\ arrived \in Seq(InBytes) /\ input \in Seq(InBytes)
      /\ readbuf # Nil => readbuf \in InBytes /\ Bytes(readbuf) = readbuf
  <2>1. << >> \in InBytes
    BY DEF InBytes
  <2> QED
    BY <2>1, TypeParts, ComingIs DEF Places, ComingIn, Bytes, InBytes, Pieces
<1>2. InBytes \subseteq Seq(Nat) /\ Seq(InBytes) \subseteq Seq(Seq(Nat))
  BY Values, SeqMonotonic
<1>3. used \o Bytes(readbuf) \in Seq(Nat)
  BY <1>1, <1>2, Joined
<1>4. Received \in Seq(Nat)
  BY <1>1, <1>2, <1>3, Joined DEF Received
<1>5. input \o arrived \in Seq(Seq(Nat))
  BY <1>1, <1>2
<1> QED
  BY <1>1, <1>2, <1>3, <1>4, <1>5

\* What the peer has sent is a part of the stream.
LEMMA SentSoFar ==
  ASSUME TlsAssumption, TypeOK
  PROVE  /\ SubSeq(Coming, 1, peerSent) \in Seq(Seq(Nat)) /\ Within(SubSeq(Coming, 1, peerSent)) \in Seq(Nat)
         /\ \E rest \in Seq(Nat) : Numbers(Len(Is)) = Within(SubSeq(Coming, 1, peerSent)) \o rest
<1> DEFINE sent == Take(Coming, peerSent)
           rest == Drop(Coming, peerSent)
<1>1. Coming \in Seq(Seq(Nat)) /\ peerSent \in 0 .. Len(Coming) /\ FlattenSeq(Coming) = Numbers(Len(Is))
  BY ComingIs, Parts
<1>2. sent \in Seq(Seq(Nat)) /\ rest \in Seq(Seq(Nat)) /\ sent \o rest = Coming /\ sent = SubSeq(Coming, 1, peerSent)
  BY <1>1, TakeDrop, TakeThenDrop DEF Take
<1> HIDE DEF sent, rest
<1>3. FlattenSeq(sent \o rest) = FlattenSeq(sent) \o FlattenSeq(rest)
  BY <1>2, FlatJoined
<1>4. FlattenSeq(sent) \in Seq(Nat) /\ FlattenSeq(rest) \in Seq(Nat)
  BY <1>2, FlatTyped
<1> QED
  BY <1>1, <1>2, <1>3, <1>4 DEF Within

\* There is no more in the buffer than the stream has.
LEMMA BufferFits ==
  ASSUME TlsAssumption, TypeOK, NothingLost, readbuf # Nil
  PROVE  readbuf \in Seq(Nat) /\ Len(readbuf) \in Nat /\ Len(readbuf) <= Len(Is)
<1> DEFINE sent == Within(SubSeq(Coming, 1, peerSent))
           coming == Within(input \o arrived)
<1>1. /\ used \in Seq(Nat) /\ readbuf \in Seq(Nat) /\ plain \in Seq(Nat) /\ Bytes(readbuf) = readbuf
      /\ coming \in Seq(Nat)
  BY Parts, FlatTyped DEF Within
<1>2. PICK rest \in Seq(Nat) : Numbers(Len(Is)) = sent \o rest
  BY SentSoFar
<1>3. sent \in Seq(Nat) /\ sent = (used \o readbuf \o plain) \o coming
  BY <1>1, SentSoFar DEF NothingLost, Received
<1> HIDE DEF sent, coming
<1>4. Len(sent) = Len(used) + Len(readbuf) + Len(plain) + Len(coming)
  BY <1>1, <1>3
<1>5. Len(Numbers(Len(Is))) = Len(sent) + Len(rest)
  BY <1>2, <1>3
<1>6. Len(Is) \in Nat /\ Len(Numbers(Len(Is))) = Len(Is)
  BY ComingIs, NumbersSeq
<1>7. /\ Len(used) \in Nat /\ Len(readbuf) \in Nat /\ Len(plain) \in Nat /\ Len(coming) \in Nat
      /\ Len(sent) \in Nat /\ Len(rest) \in Nat
  BY <1>1, <1>2, <1>3
<1> QED
  BY <1>1, <1>4, <1>5, <1>6, <1>7

LEMMA PositionStep ==
  ASSUME TlsAssumption, TypeOK, Ending, NothingLost, [Next]_vars PROVE Position'
<1>0. rpos \in 1 .. Len(Is) + 1 /\ Len(Is) \in Nat
  BY TypeParts, ComingIs DEF Position
<1>1. CASE Environment \/ LoopStep \/ Handle \/ RunStep \/ UNCHANGED vars
  BY <1>0, <1>1 DEF Position, Environment, Peer, LoopStep, Handle, RunStep, vars, connVars, readVars
<1>2. CASE LookAtBuffer
  <2>1. PICK look : look = Try(format, readbuf, rpos, eof, tried) /\ rpos' = look.rpos /\ at = "read"
    BY <1>2, LookDoes
  <2>2. look.rpos \in {rpos, 1} \/ (readbuf # Nil /\ look.rpos = Len(readbuf) + 1)
    BY <2>1, LookTyped DEF LookKeeps
  <2>3. readbuf # Nil => Len(readbuf) \in Nat /\ Len(readbuf) <= Len(Is)
    BY BufferFits
  <2> QED
    BY <1>0, <2>1, <2>2, <2>3 DEF Position
<1>3. CASE CoStep /\ ~ LookAtBuffer
  BY <1>0, <1>3 DEF Position, CoStep, CallStep, Ioing, SetTimer, Read, Write, Mode, Flush, Enter,
     ShakeIn, ShakeOut, WantInput, WantOutput, HandshakeDone, Decode, Refilled, RefillEnds, Seal, SendPiece,
     SendAll, SendSome, SendLast, CallFails, CloseSocket, RemoveSocket, readVars
<1> QED
  BY <1>1, <1>2, <1>3 DEF Next, Program

LEMMA TypeStep ==
  ASSUME TlsAssumption, TypeOK, Ending, NothingLost, Sending, [Next]_vars PROVE TypeOK'
<1>1. Flags'
  BY TypeParts, FlagsStep DEF Flags
<1>2. Places' /\ ComingIn' /\ GoingOut' /\ Position'
  BY PlacesStep, ComingInStep, GoingOutStep, PositionStep
<1> QED
  BY <1>1, <1>2, Zenon DEF TypeOK, ConnectionTypeOK, Places, ComingIn, GoingOut, Flags, Position

-----------------------------------------------------------------------------
(* What goes out.                                                          *)

LEMMA OutParts ==
  ASSUME TlsAssumption, TypeOK
  PROVE  /\ writebuf \in Seq(Nat) /\ piece \in Seq(Nat)
         /\ leaving \in Seq(Seq(Nat)) /\ peerGot \in Seq(Seq(Nat)) /\ record \in Seq(Seq(Nat))
         /\ unit \in Nat /\ unit <= Len(writebuf) /\ written \in Nat /\ size \in 0 .. Len(piece)
         /\ Len(writebuf) \in Nat /\ Len(piece) \in Nat
<1>1. Seq(1 .. Out) \subseteq Seq(Nat)
  BY OutTyped, SeqMonotonic
<1>2. Seq(Seq(1 .. Out)) \subseteq Seq(Seq(Nat))
  BY <1>1, SeqMonotonic
<1> QED
  BY <1>1, <1>2, OutTyped

\* A unit has been started on.
LEMMA StartedKeeps ==
  ASSUME TlsAssumption, TypeOK, NEW n \in 0 .. Len(writebuf), piece' = Take(writebuf, n), unit' = Len(piece'),
         writebuf' = writebuf
  PROVE  PieceKept' /\ unit' - Len(piece') = 0
<1>1. piece' \in Seq(Nat) /\ Len(piece') = n
  BY OutParts, TakeDrop
<1>2. piece' = SubSeq(writebuf', 1, unit')
  BY <1>1 DEF Take
<1> QED
  BY <1>1, <1>2 DEF PieceKept

\* Nothing is being drained.
LEMMA IdleKeeps == ASSUME piece' = << >>, unit' = 0, writebuf' \in Seq(Nat) PROVE PieceKept'
BY DEF PieceKept

LEMMA WholeBuffer == ASSUME TlsAssumption, TypeOK
                     PROVE  Len(writebuf) \in 0 .. Len(writebuf) /\ Take(writebuf, Len(writebuf)) = writebuf
BY OutParts DEF Take

\* Some of what _drain() has left is taken off its front.
LEMMA DroppedKeeps ==
  ASSUME TlsAssumption, TypeOK, PieceKept, NEW d \in 0 .. Len(piece), piece' = Drop(piece, d),
         writebuf' = writebuf, unit' = unit
  PROVE  PieceKept' /\ unit' - Len(piece') = (unit - Len(piece)) + d /\ Len(piece') = Len(piece) - d
<1> DEFINE m == unit - Len(piece)
           n == m + d
<1>1. /\ m \in Nat /\ n \in Nat /\ m <= n /\ n <= unit /\ unit \in Nat /\ unit <= Len(writebuf)
      /\ writebuf \in Seq(Nat) /\ n - m = d /\ Len(piece) = unit - m
  <2>1. /\ Len(piece) \in Nat /\ unit \in Nat /\ Len(piece) <= unit /\ unit <= Len(writebuf)
        /\ Len(writebuf) \in Nat /\ writebuf \in Seq(Nat)
    BY OutParts DEF PieceKept
  <2> QED
    BY <2>1
<1>2. piece = SubSeq(writebuf, m + 1, unit)
  BY DEF PieceKept
<1> HIDE DEF m, n
<1>3. Drop(SubSeq(writebuf, m + 1, unit), n - m) = SubSeq(writebuf, n + 1, unit)
  BY <1>1, PartDrop
<1>4. piece' = SubSeq(writebuf, n + 1, unit)
  BY <1>1, <1>2, <1>3
<1>5. Len(piece') = unit - n
  BY <1>1, <1>4
<1>6. unit - Len(piece') = n /\ Len(piece') <= unit
  BY <1>1, <1>5
<1>7. unit' = unit /\ writebuf' = writebuf /\ Len(piece) - d = unit - n
  BY <1>1
<1>8. unit' - Len(piece') = n /\ Len(piece') <= unit' /\ piece' = SubSeq(writebuf', n + 1, unit')
  BY <1>4, <1>6, <1>7
<1>9. PieceKept'
  BY <1>8 DEF PieceKept
<1> QED
  BY <1>5, <1>7, <1>8, <1>9 DEF m, n

LEMMA PieceStep ==
  ASSUME TlsAssumption, TypeOK, Sending, [Next]_vars PROVE PieceKept'
<1>0. PieceKept /\ (at # "send" => unit = 0 /\ piece = << >>)
  BY OutParts DEF Sending, Idle, PieceKept
<1>a. ASSUME UNCHANGED <<writebuf, piece, unit>> PROVE PieceKept'
  BY <1>0, <1>a DEF PieceKept
<1>1. CASE Environment \/ LoopStep \/ Handle \/ RunStep \/ UNCHANGED vars
  BY <1>a, <1>1 DEF Environment, Peer, LoopStep, Handle, RunStep, vars, connVars, writeVars
<1>2. CASE SetTimer \/ Read \/ Enter \/ ShakeIn \/ ShakeOut \/ WantInput \/ WantOutput \/ HandshakeDone
           \/ Decode \/ Refilled \/ RefillEnds \/ Seal \/ SendPiece \/ CloseSocket \/ RemoveSocket
  BY <1>a, <1>2 DEF SetTimer, Read, Enter, ShakeIn, ShakeOut, WantInput, WantOutput, HandshakeDone,
     Decode, Refilled, RefillEnds, Seal, SendPiece, CloseSocket, RemoveSocket, writeVars
<1>3. CASE LookAtBuffer
  BY <1>a, <1>3, LookDoes DEF writeVars
<1>4. CASE Write
  <2>1. piece' = << >> /\ unit' = 0
    BY <1>0, <1>4 DEF Write, Does
  <2>2. PICK n \in 1 .. Out - written : writebuf' = writebuf \o [k \in 1 .. n |-> written + k]
    BY <1>4 DEF Write
  <2> DEFINE more == [k \in 1 .. n |-> written + k]
  <2>3. more \in Seq(Nat)
    BY OutTyped
  <2> HIDE DEF more
  <2>4. writebuf \o more \in Seq(Nat)
    BY <2>3, OutParts
  <2> QED
    BY <2>1, <2>2, <2>4, IdleKeeps DEF more
<1>5. CASE Mode
  <2>1. CASE Piece(mode, WSize, writebuf) = Nil
    BY <1>a, <1>5, <2>1 DEF Mode
  <2>2. CASE Piece(mode, WSize, writebuf) # Nil
    <3>1. PICK n \in 0 .. Len(writebuf) : Piece(mode, WSize, writebuf) = Take(writebuf, n)
      BY <2>2, FrontOfBuffer
    <3> QED
      BY <1>5, <2>2, <3>1, StartedKeeps DEF Mode, StartDrain
  <2> QED
    BY <2>1, <2>2
<1>6. CASE Flush
  BY <1>6, WholeBuffer, StartedKeeps DEF Flush, StartDrain
<1>7. CASE SendAll
  <2>1. Drop(writebuf, unit) \in Seq(Nat)
    BY OutParts, TakeDrop
  <2> QED
    BY <1>7, <2>1, IdleKeeps DEF SendAll, Drained, DropUnit
<1>8. CASE SendSome
  BY <1>0, <1>8, OutParts, DroppedKeeps DEF SendSome
<1>9. CASE CallFails
  <2>1. UNCHANGED <<piece, unit>> \/ (piece' = << >> /\ unit' = 0)
    BY <1>9 DEF CallFails, NotDrained
  <2>2. writebuf' = writebuf
    BY <1>9 DEF CallFails
  <2> QED
    BY <1>a, <2>1, <2>2, OutParts, IdleKeeps
<1> QED
  BY <1>1, <1>2, <1>3, <1>4, <1>5, <1>6, <1>7, <1>8, <1>9 DEF Next, Program, CoStep, CallStep, Ioing

LEMMA SealedStep ==
  ASSUME TlsAssumption, TypeOK, Control, Connecting, Greeting, Sending, [Next]_vars PROVE Sealed'
<1> SUFFICES ASSUME link' = "up" PROVE Sealed'
  BY DEF Sealed
<1>0. CASE link # "up"
  <2>1. LinkUp
    BY <1>0 DEF Next, Environment, Peer, LinkDown, PeerSends, PeerShuts, PeerReads, Program, LoopStep,
       Handle, RunStep, CoStep, vars, connVars, peerVars
  <2>2. UNCHANGED <<at, record, size>> /\ record = << >> /\ at # "send"
    <3>1. ~ (LoopStep \/ Handle \/ RunStep \/ CoStep \/ UNCHANGED vars)
      BY <1>0 DEF LoopStep, Handle, RunStep, CoStep, vars, connVars, peerVars
    <3> QED
      BY <2>1, <3>1 DEF Next, Environment, Peer, Program, LinkUp, Connecting, tlsVars
  <2> QED
    BY <2>2 DEF Sealed, Sending, Idle
<1> SUFFICES ASSUME link = "up" PROVE Sealed'
  BY <1>0
<1>1. \/ record = << >> /\ size = 0
      \/ at = "send" /\ Shaken /\ record \in {<< << >>, Take(piece, size) >>, << Take(piece, size) >>}
  BY DEF Sending, Sealed
<1>a. ASSUME UNCHANGED <<record, size, shake, at, piece>> PROVE Sealed'
  BY <1>1, <1>a DEF Sealed, Shaken, Take
<1>b. ASSUME record = << >>, size = 0, UNCHANGED <<record, size>> PROVE Sealed'
  BY <1>b DEF Sealed
<1>c. at # "send" => record = << >> /\ size = 0
  BY <1>1
<1>d. ~ Shaken => record = << >> /\ size = 0
  BY <1>1
<1>2. CASE Environment \/ (LoopStep /\ Still) \/ Handle \/ UNCHANGED vars
  BY <1>a, <1>2 DEF Environment, Peer, LoopStep, Still, Handle, vars, connVars, writeVars, tlsVars
<1>3. CASE RunStep
  <2>1. UNCHANGED <<record, size, shake, piece>>
    BY <1>3 DEF RunStep, writeVars
  <2>2. CASE at' = at
    BY <1>a, <2>1, <2>2
  <2>3. CASE at' # at
    BY <1>b, <1>c, <1>3, <2>1, <2>3 DEF RunStep, Start, ConnectDone, Again, WakeUp, EndRun, Resumed
  <2> QED
    BY <2>2, <2>3
<1>4. CASE CoStep
  <2>1. CASE (Ioing \/ Enter \/ LookAtBuffer) /\ Still
    BY <1>b, <1>c, <2>1, LookDoes DEF Ioing, SetTimer, Read, Write, Mode, Flush, Enter, Does, Still, tlsVars
  <2>2. CASE ShakeIn \/ ShakeOut
    BY <1>b, <1>d, <2>2 DEF ShakeIn, ShakeOut, Shaking
  <2>3. CASE WantInput \/ WantOutput
    BY <1>a, <2>3 DEF WantInput, WantOutput, Yield, writeVars
  <2>4. CASE HandshakeDone \/ Decode \/ Refilled \/ RefillEnds \/ CloseSocket \/ RemoveSocket
    BY <1>b, <1>c, <2>4 DEF HandshakeDone, Decode, Refilled, RefillEnds, CloseSocket, RemoveSocket, Does, tlsVars
  <2>5. CASE Seal
    BY <2>5 DEF Sealed, Seal, Stay, Does, writeVars, Shaken
  <2>6. CASE SendPiece
    <3>1. record = << << >>, Take(piece, size) >> /\ at = "send" /\ Shaken
      BY <1>1, <2>6 DEF SendPiece
    <3>2. record' = Tail(record) /\ UNCHANGED <<at, piece, size, shake>>
      BY <2>6 DEF SendPiece, Stay, writeVars
    <3>3. record' = << Take(piece, size) >>
      BY <3>1, <3>2
    <3>4. Take(piece', size') = Take(piece, size) /\ Shaken'
      BY <3>1, <3>2 DEF Take, Shaken
    <3> QED
      BY <3>1, <3>2, <3>3, <3>4 DEF Sealed
  <2>7. CASE SendAll \/ SendSome
    BY <2>7 DEF Sealed, SendAll, SendSome, SendLast
  <2>8. CASE CallFails
    <3>1. ~ Shaken
      BY <2>8 DEF CallFails, Failing
    <3> QED
      BY <1>b, <1>d, <2>8, <3>1 DEF CallFails
  <2> QED
    BY <1>4, <2>1, <2>2, <2>3, <2>4, <2>5, <2>6, <2>7, <2>8 DEF CoStep, CallStep, Still
<1> QED
  BY <1>2, <1>3, <1>4 DEF Next, Program, Still

LEMMA IdleStep == ASSUME TlsAssumption, TypeOK, Idle, [Next]_vars PROVE Idle'
<1> USE DEF Idle
<1>a. ASSUME UNCHANGED <<unit, size>>, at = "send" => at' = "send" PROVE Idle'
  BY <1>a
<1>1. CASE Environment \/ (LoopStep /\ Still) \/ Handle \/ UNCHANGED vars
  BY <1>a, <1>1 DEF Environment, Peer, LoopStep, Still, Handle, vars, connVars, writeVars, tlsVars
<1>2. CASE RunStep
  BY <1>a, <1>2 DEF RunStep, Start, ConnectDone, Again, WakeUp, EndRun, Resumed, writeVars
<1>3. CASE CoStep
  <2>1. CASE (SetTimer \/ Read \/ Write \/ Enter \/ LookAtBuffer) /\ Still
    BY <1>a, <2>1, LookDoes DEF SetTimer, Read, Write, Enter, Does, writeVars, Still, tlsVars
  <2>2. CASE Mode /\ Still
    BY <1>a, <2>2 DEF Mode, StartDrain, Go, Does, Still, tlsVars
  <2>3. CASE Flush /\ Still
    BY <2>3 DEF Flush, StartDrain, Go
  <2>4. CASE ShakeIn \/ ShakeOut \/ WantInput \/ WantOutput \/ HandshakeDone \/ Decode \/ Refilled \/ RefillEnds
             \/ SendPiece \/ CloseSocket \/ RemoveSocket
    BY <1>a, <2>4 DEF ShakeIn, ShakeOut, WantInput, WantOutput, HandshakeDone, Decode, Refilled, RefillEnds,
       SendPiece, CloseSocket, RemoveSocket, Stay, Yield, Does, writeVars, tlsVars
  <2>5. CASE Seal
    BY <2>5 DEF Seal, Stay, Does
  <2>6. CASE SendAll \/ SendSome
    BY <2>6 DEF SendAll, SendSome, SendLast, Drained, Yield, Go
  <2>7. CASE CallFails
    BY <2>7 DEF CallFails, NotDrained
  <2> QED
    BY <1>3, <2>1, <2>2, <2>3, <2>4, <2>5, <2>6, <2>7 DEF CoStep, CallStep, Ioing, Still
<1> QED
  BY <1>1, <1>2, <1>3 DEF Next, Program, Still

LEMMA SendingStep ==
  ASSUME TlsAssumption, TypeOK, Control, Connecting, Greeting, Sending, [Next]_vars PROVE Sending'
BY PieceStep, SealedStep, IdleStep DEF Sending

-----------------------------------------------------------------------------
(* Every byte that was written is on its way once.                         *)

Gone == Within(peerGot \o leaving)
Unsent == Drop(writebuf, unit - Len(piece) + size)
Rest == Within(record) \o Unsent

LEMMA OutgoingIs ==
  ASSUME TlsAssumption, TypeOK, PieceKept
  PROVE  /\ Gone \in Seq(Nat) /\ Within(record) \in Seq(Nat) /\ Unsent \in Seq(Nat) /\ Rest \in Seq(Nat)
         /\ peerGot \o leaving \in Seq(Seq(Nat))
         /\ unit - Len(piece) + size \in 0 .. Len(writebuf)
         /\ AllWritten <=> (link = "up" => Gone \o Rest = Numbers(written))
<1>1. /\ peerGot \in Seq(Seq(Nat)) /\ leaving \in Seq(Seq(Nat)) /\ record \in Seq(Seq(Nat))
      /\ writebuf \in Seq(Nat)
  BY OutParts
<1>2. unit - Len(piece) + size \in 0 .. Len(writebuf)
  BY OutParts DEF PieceKept
<1>3. Unsent \in Seq(Nat)
  BY <1>1, <1>2, TakeDrop DEF Unsent
<1> DEFINE got == peerGot \o leaving
<1>4. got \in Seq(Seq(Nat))
  BY <1>1
<1> HIDE DEF got
<1>5. /\ FlattenSeq(got) \in Seq(Nat) /\ FlattenSeq(record) \in Seq(Nat)
      /\ FlattenSeq(got \o record) = FlattenSeq(got) \o FlattenSeq(record)
  BY <1>1, <1>4, FlatTyped, FlatJoined
<1>6. Gone = FlattenSeq(got) /\ Within(record) = FlattenSeq(record)
  BY DEF Gone, Within, got
<1>7. (Gone \o Within(record)) \o Unsent = Gone \o Rest
  <2>1. Gone \in Seq(Nat) /\ Within(record) \in Seq(Nat)
    BY <1>5, <1>6
  <2>2. (Gone \o Within(record)) \o Unsent = Gone \o (Within(record) \o Unsent)
    BY <1>3, <2>1, Regroup
  <2> QED
    BY <2>2 DEF Rest
<1>8. AllWritten <=> (link = "up" => FlattenSeq(got \o record) \o Unsent = Numbers(written))
  BY DEF AllWritten, Within, Unsent, got
<1>9. Rest \in Seq(Nat)
  BY <1>3, <1>5, <1>6, Joined DEF Rest
<1> QED
  BY <1>2, <1>3, <1>4, <1>5, <1>6, <1>7, <1>8, <1>9 DEF got

\* A piece is sent to the peer.
LEMMA GoneNext ==
  ASSUME TlsAssumption, TypeOK, NEW b \in Seq(Nat), leaving' = Append(leaving, b), peerGot' = peerGot
  PROVE  Gone' = Gone \o b
<1>1. peerGot \in Seq(Seq(Nat)) /\ leaving \in Seq(Seq(Nat))
  BY OutParts
<1>2. peerGot \o Append(leaving, b) = Append(peerGot \o leaving, b)
  <2>1. <<b>> \in Seq(Seq(Nat)) /\ peerGot \o leaving \in Seq(Seq(Nat))
    BY <1>1
  <2>2. Append(leaving, b) = leaving \o <<b>> /\ Append(peerGot \o leaving, b) = (peerGot \o leaving) \o <<b>>
    BY <1>1, <2>1, AppendIsConcat
  <2>3. (peerGot \o leaving) \o <<b>> = peerGot \o (leaving \o <<b>>)
    BY <1>1, <2>1, RegroupPieces
  <2> QED
    BY <2>2, <2>3
<1>3. peerGot \o leaving \in Seq(Seq(Nat))
  BY <1>1
<1>4. FlattenSeq(Append(peerGot \o leaving, b)) = FlattenSeq(peerGot \o leaving) \o b
  BY <1>3, FlatAppended
<1> QED
  BY <1>2, <1>4 DEF Gone, Within

LEMMA GoneStays == ASSUME TlsAssumption, TypeOK, leaving' = Append(leaving, << >>), peerGot' = peerGot
                   PROVE  Gone' = Gone
<1>1. << >> \in Seq(Nat)
  OBVIOUS
<1>2. Gone' = Gone \o << >>
  BY <1>1, GoneNext
<1>3. Gone \in Seq(Nat)
  <2>1. peerGot \o leaving \in Seq(Seq(Nat))
    <3>1. peerGot \in Seq(Seq(Nat)) /\ leaving \in Seq(Seq(Nat))
      BY OutParts
    <3> QED
      BY <3>1
  <2> QED
    BY <2>1, FlatTyped DEF Gone, Within
<1> QED
  BY <1>2, <1>3, ConcatEmptySeq

\* What a record holds.
LEMMA FlatRecord == ASSUME NEW b \in Seq(Nat)
                    PROVE  Within(<<b>>) = b /\ Within(<< << >>, b >>) = b /\ Within(<< >>) = << >>
<1>1. << >> \in Seq(Nat) /\ <<b>> \in Seq(Seq(Nat)) /\ << << >>, b >> \in Seq(Seq(Nat)) /\ << << >>, b >> # << >>
  OBVIOUS
<1>2. FlattenSeq(<<b>>) = b
  BY FlatOne
<1> DEFINE r == << << >>, b >>
<1>3. Head(r) = << >> /\ Tail(r) = <<b>> /\ r \in Seq(Seq(Nat)) /\ r # << >>
  OBVIOUS
<1> HIDE DEF r
<1>4. FlattenSeq(r) = << >> \o FlattenSeq(<<b>>)
  BY <1>3, FlatHead
<1>5. << >> \o b = b
  BY ConcatEmptySeq
<1> QED
  BY <1>2, <1>4, <1>5, FlatNone DEF Within, r

\* What is left of the buffer begins with what is sealed of it next.
LEMMA UnsentIs ==
  ASSUME TlsAssumption, TypeOK, PieceKept, NEW n \in 0 .. Len(piece)
  PROVE  /\ Drop(writebuf, unit - Len(piece)) = Take(piece, n) \o Drop(writebuf, unit - Len(piece) + n)
         /\ Take(piece, n) \in Seq(Nat) /\ Drop(writebuf, unit - Len(piece) + n) \in Seq(Nat)
<1> DEFINE m == unit - Len(piece)
           k == m + n
           w == Len(writebuf)
<1>1. /\ m \in Nat /\ k \in Nat /\ m <= k /\ k <= unit /\ unit <= w /\ k <= w /\ m <= w /\ w <= Len(writebuf)
      /\ writebuf \in Seq(Nat) /\ unit \in Nat /\ w \in Nat /\ k - m = n
      /\ piece = SubSeq(writebuf, m + 1, unit)
  <2>1. /\ unit \in Nat /\ w \in Nat /\ Len(piece) \in Nat /\ Len(piece) <= unit /\ unit <= w /\ writebuf \in Seq(Nat)
        /\ piece = SubSeq(writebuf, m + 1, unit)
    BY OutParts DEF PieceKept
  <2> QED
    BY <2>1
<1> HIDE DEF m, k
<1>2. Take(SubSeq(writebuf, m + 1, unit), k - m) = SubSeq(writebuf, m + 1, k)
  BY <1>1, PartTake
<1>3. Take(piece, n) = SubSeq(writebuf, m + 1, k)
  BY <1>1, <1>2
<1>4. SubSeq(writebuf, m + 1, w) = SubSeq(writebuf, m + 1, k) \o SubSeq(writebuf, k + 1, w)
  BY <1>1, PartJoin
<1>5. SubSeq(writebuf, m + 1, k) \in Seq(Nat) /\ SubSeq(writebuf, k + 1, w) \in Seq(Nat)
  BY <1>1, PartOf
<1> QED
  BY <1>3, <1>4, <1>5 DEF Drop, m, k

LEMMA OutgoingNext ==
  ASSUME TlsAssumption
  PROVE  TypeOK' /\ PieceKept' => (AllWritten' <=> (link' = "up" => Gone' \o Rest' = Numbers(written')))
<1>1. TypeOK /\ PieceKept => (AllWritten <=> (link = "up" => Gone \o Rest = Numbers(written)))
  BY OutgoingIs
<1>2. TypeOK' /\ PieceKept' => (AllWritten <=> (link = "up" => Gone \o Rest = Numbers(written)))'
  BY <1>1, PTL
<1> QED
  BY <1>2

LEMMA AllWrittenStep ==
  ASSUME TlsAssumption, TypeOK, Connecting, Greeting, Sending, AllWritten, [Next]_vars,
         TypeOK', PieceKept'
  PROVE  AllWritten'
<1> SUFFICES ASSUME link' = "up" PROVE Gone' \o Rest' = Numbers(written')
  BY OutgoingNext
<1>p. PieceKept
  BY DEF Sending
<1>0. /\ link = "up" => Gone \o Rest = Numbers(written)
      /\ Gone \in Seq(Nat) /\ Rest \in Seq(Nat) /\ Unsent \in Seq(Nat) /\ writebuf \in Seq(Nat)
  BY <1>p, OutgoingIs, OutParts
<1>a. ASSUME link = "up", Gone' = Gone, Rest' = Rest, written' = written PROVE Gone' \o Rest' = Numbers(written')
  BY <1>0, <1>a DEF Numbers
<1>b. ASSUME UNCHANGED <<record, size, writebuf, unit, piece>> PROVE Rest' = Rest
  BY <1>b DEF Rest, Within, Unsent, Drop
<1>c. ASSUME UNCHANGED <<peerGot, leaving>> PROVE Gone' = Gone
  BY <1>c DEF Gone, Within
<1>e. ASSUME NEW b \in Seq(Nat), leaving' = Append(leaving, b), peerGot' = peerGot, link = "up",
             Rest' \in Seq(Nat), Rest = b \o Rest', written' = written
      PROVE  Gone' \o Rest' = Numbers(written')
  <2>1. Gone' = Gone \o b
    BY <1>e, GoneNext
  <2>2. (Gone \o b) \o Rest' = Gone \o (b \o Rest')
    <3>1. Gone \in Seq(Nat) /\ b \in Seq(Nat) /\ Rest' \in Seq(Nat)
      BY <1>0, <1>e
    <3> QED
      BY <3>1, Regroup
  <2> QED
    BY <1>0, <1>e, <2>1, <2>2 DEF Numbers
<1>d. Within(<< >>) = << >>
  BY FlatNone DEF Within
<1>1. CASE Environment
  <2>1. UNCHANGED <<writebuf, piece, unit, written, record, size>>
    BY <1>1 DEF Environment, Peer, writeVars, tlsVars
  <2>2. CASE LinkUp
    <3>1. written = 0 /\ writebuf = << >> /\ leaving = << >> /\ peerGot = << >> /\ record = << >>
      BY <2>2 DEF LinkUp, Connecting
    <3>2. UNCHANGED <<leaving, peerGot>>
      BY <2>2 DEF LinkUp, sockVars
    <3>3. unit - Len(piece) + size = 0
      BY <1>p, <3>1, OutgoingIs
    <3>4. Unsent = << >> /\ Numbers(0) = << >> /\ << >> \o << >> = << >>
      BY <3>1, <3>3 DEF Unsent, Drop, Numbers
    <3>5. Gone' = Gone /\ Rest' = Rest
      BY <1>b, <1>c, <2>1, <3>2
    <3>6. Gone = << >> /\ Rest = << >>
      BY <1>d, <3>1, <3>4 DEF Gone, Rest
    <3> QED
      BY <2>1, <3>1, <3>4, <3>5, <3>6
  <2>3. CASE PeerReads
    <3>1. leaving # << >> /\ peerGot' = Append(peerGot, Head(leaving)) /\ leaving' = Tail(leaving) /\ link = "up"
      BY <2>3 DEF PeerReads
    <3>2. Append(peerGot, Head(leaving)) \o Tail(leaving) = peerGot \o leaving
      BY <3>1, OutParts, PieceTaken
    <3>3. Gone' = Gone
      BY <3>1, <3>2 DEF Gone
    <3> QED
      BY <1>a, <1>b, <2>1, <3>1, <3>3
  <2>4. CASE LinkDown
    BY <2>4 DEF LinkDown
  <2>5. CASE PeerSends \/ PeerShuts
    BY <1>a, <1>b, <1>c, <2>1, <2>5 DEF PeerSends, PeerShuts, sockVars
  <2> QED
    BY <1>1, <2>2, <2>3, <2>4, <2>5 DEF Environment, Peer
<1>2. CASE (LoopStep /\ Still) \/ Handle \/ RunStep \/ UNCHANGED vars
  <2>1. UNCHANGED <<writebuf, piece, unit, written, link, leaving, peerGot, record, size>>
    BY <1>2 DEF LoopStep, Still, Handle, Hangup, Receive, Writable, RunStep, vars, connVars, peerVars, sockVars,
       writeVars, tlsVars
  <2> QED
    BY <1>a, <1>b, <1>c, <2>1
<1>3. CASE CoStep
  <2>0. link = "up" /\ peerGot' = peerGot
    BY <1>3 DEF CoStep, peerVars
  <2>s. \/ record = << >> /\ size = 0
        \/ at = "send" /\ Shaken /\ record \in {<< << >>, Take(piece, size) >>, << Take(piece, size) >>}
    BY <2>0 DEF Sending, Sealed
  <2>i. at # "send" => /\ unit = 0 /\ piece = << >> /\ size = 0 /\ record = << >>
                       /\ Unsent = writebuf /\ Rest = writebuf
    <3>1. at # "send" => unit = 0 /\ piece = << >> /\ size = 0 /\ record = << >>
      BY <2>s, OutParts DEF Sending, Idle, PieceKept
    <3>2. unit = 0 /\ piece = << >> /\ size = 0 => Unsent = Drop(writebuf, 0)
      BY DEF Unsent
    <3>3. Drop(writebuf, 0) = writebuf /\ << >> \o writebuf = writebuf
      BY <1>0, DropNone, ConcatEmptySeq
    <3> QED
      BY <1>d, <3>1, <3>2, <3>3 DEF Rest
  \* Nothing is sealed, and nothing of the unit has gone.
  <2>w. ASSUME record' = << >>, unit' - Len(piece') + size' = 0, NEW buf \in Seq(Nat), writebuf' = buf
        PROVE  Rest' = buf
    <3>1. Unsent' = Drop(buf, 0)
      BY <2>w DEF Unsent
    <3>2. Drop(buf, 0) = buf /\ << >> \o buf = buf
      BY DropNone, ConcatEmptySeq
    <3> QED
      BY <1>d, <2>w, <3>1, <3>2 DEF Rest
  <2>1. CASE (SetTimer \/ Read \/ Enter \/ LookAtBuffer) /\ Still
    <3>1. UNCHANGED <<writebuf, piece, unit, written, leaving, record, size>>
      BY <2>1, LookDoes DEF SetTimer, Read, Enter, sockVars, writeVars, Still, tlsVars
    <3> QED
      BY <1>a, <1>b, <1>c, <2>0, <3>1
  <2>2. CASE ShakeIn \/ WantInput \/ WantOutput \/ HandshakeDone \/ Decode \/ Refilled \/ RefillEnds \/ RemoveSocket
    <3>1. UNCHANGED <<writebuf, piece, unit, written, leaving, record, size>>
      BY <2>2 DEF ShakeIn, WantInput, WantOutput, HandshakeDone, Decode, Refilled, RefillEnds, RemoveSocket,
                  sockVars, writeVars, tlsVars
    <3> QED
      BY <1>a, <1>b, <1>c, <2>0, <3>1
  <2>3. CASE ShakeOut \/ CloseSocket
    <3>1. UNCHANGED <<writebuf, piece, unit, written, record, size>>
          /\ (leaving' = leaving \/ leaving' = Append(leaving, << >>))
      BY <2>3 DEF ShakeOut, CloseSocket, Send, writeVars, tlsVars
    <3> QED
      BY <1>a, <1>b, <1>c, <2>0, <3>1, GoneStays
  <2>4. CASE Write /\ Still
    <3>1. PICK n \in 1 .. Out - written : /\ writebuf' = writebuf \o [k \in 1 .. n |-> written + k]
                                          /\ written' = written + n
      BY <2>4 DEF Write
    <3>2. unit' = 0 /\ piece' = << >> /\ size' = 0 /\ record' = << >> /\ Rest = writebuf /\ leaving' = leaving
      BY <2>i, <2>4 DEF Write, Does, sockVars, Still, tlsVars
    <3> DEFINE more == [k \in 1 .. n |-> written + k]
    <3>3. more \in Seq(Nat) /\ written \in Nat /\ n \in Nat
      BY OutTyped
    <3>4. Numbers(written) \o more = Numbers(written + n)
      BY <3>3, NumbersNext
    <3> HIDE DEF more
    <3>5. writebuf \o more \in Seq(Nat)
      BY <1>0, <3>3, Joined
    <3>6. Rest' = writebuf \o more
      <4>1. unit' - Len(piece') + size' = 0
        <5>1. unit' = 0 /\ size' = 0 /\ Len(piece') = 0
          BY <3>2
        <5> QED
          BY <5>1
      <4> QED
        BY <2>w, <3>1, <3>2, <3>5, <4>1 DEF more
    <3>7. Gone \o (writebuf \o more) = (Gone \o writebuf) \o more
      BY <1>0, <3>3, Regroup
    <3>8. Gone \o writebuf = Numbers(written) /\ Gone' = Gone
      BY <1>0, <1>c, <2>0, <3>2
    <3> QED
      BY <3>1, <3>4, <3>6, <3>7, <3>8 DEF Numbers
  <2>5. CASE (Mode \/ Flush) /\ Still
    <3>1. at # "send" /\ UNCHANGED <<leaving, writebuf, written, record, size>>
      BY <2>5 DEF Mode, Flush, Does, sockVars, Still, tlsVars
    <3>2. UNCHANGED <<piece, unit>> \/ (unit' = Len(piece') /\ piece' \in Seq(Nat))
      <4>1. CASE Mode
        <5>1. CASE Piece(mode, WSize, writebuf) = Nil
          BY <4>1, <5>1 DEF Mode
        <5>2. CASE Piece(mode, WSize, writebuf) # Nil
          <6>1. Piece(mode, WSize, writebuf) \in Seq(Nat)
            BY <5>2, FrontOfBuffer, OutParts, TakeDrop
          <6> QED
            BY <4>1, <5>2, <6>1 DEF Mode, StartDrain
        <5> QED
          BY <5>1, <5>2
      <4>2. CASE Flush
        BY <4>2, OutParts DEF Flush, StartDrain
      <4> QED
        BY <2>5, <4>1, <4>2
    <3>3. unit' - Len(piece') + size' = 0 /\ record' = << >>
      BY <2>i, <3>1, <3>2
    <3>4. Rest' = Rest
      BY <1>0, <2>i, <2>w, <3>1, <3>3
    <3> QED
      BY <1>a, <1>c, <2>0, <3>1, <3>4
  <2>6. CASE Seal
    <3> DEFINE n == Least(MaxRecord, Len(piece))
               front == Take(piece, n)
    <3>1. n \in 0 .. Len(piece)
      BY OutTyped, LeastIn
    <3>2. /\ record = << >> /\ record' = << << >>, front >> /\ size' = n
          /\ UNCHANGED <<leaving, writebuf, unit, piece, written>>
      BY <2>6 DEF Seal, sockVars, writeVars
    <3> HIDE DEF n
    <3>3. /\ Drop(writebuf, unit - Len(piece)) = front \o Drop(writebuf, unit - Len(piece) + n)
          /\ front \in Seq(Nat) /\ Drop(writebuf, unit - Len(piece) + n) \in Seq(Nat)
      BY <1>p, <3>1, UnsentIs
    <3>4. size = 0 /\ unit - Len(piece) + 0 = unit - Len(piece)
      BY <2>s, <3>2, OutParts
    <3>5. Unsent = Drop(writebuf, unit - Len(piece)) /\ Unsent' = Drop(writebuf, unit - Len(piece) + n)
      BY <3>2, <3>4 DEF Unsent
    <3> HIDE DEF front
    <3>6. Within(record) = << >> /\ Within(record') = front
      BY <3>2, <3>3, FlatRecord
    <3>7. << >> \o Unsent = Unsent
      BY <1>0, ConcatEmptySeq
    <3>8. Rest = Unsent /\ Rest' = front \o Unsent'
      BY <3>6, <3>7 DEF Rest, Within
    <3> QED
      BY <1>a, <1>c, <2>0, <3>2, <3>3, <3>5, <3>8
  <2>7. CASE SendPiece
    <3>1. record = << << >>, Take(piece, size) >> /\ record' = Tail(record)
          /\ leaving' = Append(leaving, Head(record)) /\ UNCHANGED <<size, writebuf, unit, piece, written>>
      BY <2>s, <2>7 DEF SendPiece, Send, writeVars
    <3>2. record' = << Take(piece, size) >> /\ Head(record) = << >>
      BY <3>1
    <3>3. Take(piece, size) \in Seq(Nat)
      BY OutParts, TakeDrop
    <3>4. Within(record) = Take(piece, size) /\ Within(record') = Take(piece, size)
      BY <3>1, <3>2, <3>3, FlatRecord
    <3>5. Unsent' = Unsent
      BY <3>1 DEF Unsent
    <3>6. Rest' = Rest
      BY <3>4, <3>5 DEF Rest, Within
    <3>7. Gone' = Gone
      BY <2>0, <3>1, <3>2, GoneStays
    <3> QED
      BY <1>a, <2>0, <3>1, <3>6, <3>7
  <2>8. CASE SendAll \/ SendSome
    <3> DEFINE front == Take(piece, size)
    <3>1. /\ record = <<front>> /\ record' = << >> /\ leaving' = Append(leaving, Head(record)) /\ size' = 0
          /\ written' = written
      <4>1. /\ Len(record) = 1 /\ record' = << >> /\ leaving' = Append(leaving, Head(record)) /\ size' = 0
            /\ written' = written
        BY <2>8 DEF SendAll, SendSome, SendLast, Send
      <4>2. record # << >> /\ record # << << >>, front >>
        BY <4>1
      <4> QED
        BY <2>s, <4>1, <4>2
    <3>2. front \in Seq(Nat)
      BY OutParts, TakeDrop
    <3>3. Head(record) = front
      BY <3>1
    <3> HIDE DEF front
    <3>4. Within(record) = front /\ Rest = front \o Unsent
      <4>1. Within(record) = front
        BY <3>1, <3>2, FlatRecord
      <4> QED
        BY <4>1 DEF Rest
    <3>5. Unsent' = Unsent
      <4>1. CASE SendAll
        <5>1. size = Len(piece) /\ writebuf' = Drop(writebuf, unit) /\ piece' = << >> /\ unit' = 0
          BY <4>1 DEF SendAll, Drained, DropUnit
        <5>2. unit - Len(piece) + size = unit /\ unit' - Len(piece') + size' = 0
          <6>1. unit \in Nat /\ Len(piece) \in Nat
            BY OutParts
          <6>2. Len(piece') = 0
            BY <5>1
          <6> QED
            <7>1. size = Len(piece) /\ unit' = 0 /\ size' = 0
              BY <3>1, <5>1
            <7> QED
              BY <6>1, <6>2, <7>1
        <5>3. Unsent = Drop(writebuf, unit) /\ Unsent' = Drop(Drop(writebuf, unit), 0)
          BY <5>1, <5>2 DEF Unsent
        <5> QED
          BY <1>0, <5>3, DropNone
      <4>2. CASE SendSome
        <5>1. piece' = Drop(piece, size) /\ UNCHANGED <<writebuf, unit>> /\ size \in 0 .. Len(piece)
          BY <4>2, OutParts DEF SendSome
        <5>2. unit' - Len(piece') = unit - Len(piece) + size
          BY <1>p, <5>1, DroppedKeeps
        <5>3. unit' - Len(piece') + size' = unit - Len(piece) + size
          BY <3>1, <5>2, OutParts
        <5> QED
          BY <5>1, <5>3 DEF Unsent
      <4> QED
        BY <2>8, <4>1, <4>2
    <3>6. Rest' = Unsent
      <4>1. << >> \o Unsent = Unsent
        BY <1>0, ConcatEmptySeq
      <4> QED
        BY <1>d, <3>1, <3>5, <4>1 DEF Rest
    <3> QED
      BY <1>0, <1>e, <2>0, <3>1, <3>2, <3>3, <3>4, <3>6
  <2>9. CASE CallFails
    <3>1. ~ Shaken
      BY <2>0, <2>9 DEF CallFails, Failing
    <3>2. record = << >> /\ size = 0 /\ unit = Len(piece) /\ Len(piece) \in Nat
      BY <3>1, OutParts DEF Greeting
    <3>3. /\ UNCHANGED <<leaving, record, written, writebuf>> /\ size' = 0
          /\ (piece' = << >> /\ unit' = 0) \/ UNCHANGED <<piece, unit>>
      BY <2>9 DEF CallFails, NotDrained, sockVars
    <3>4. unit' - Len(piece') + size' = 0
      BY <3>2, <3>3
    <3>5. Rest' = writebuf
      BY <1>0, <2>w, <3>2, <3>3, <3>4
    <3>6. Rest = writebuf
      <4>1. Unsent = Drop(writebuf, 0)
        BY <3>2 DEF Unsent
      <4>2. Drop(writebuf, 0) = writebuf /\ << >> \o writebuf = writebuf
        BY <1>0, DropNone, ConcatEmptySeq
      <4> QED
        BY <1>d, <3>2, <4>1, <4>2 DEF Rest
    <3> QED
      BY <1>a, <1>c, <2>0, <3>3, <3>5, <3>6
  <2> QED
    BY <1>3, <2>1, <2>2, <2>3, <2>4, <2>5, <2>6, <2>7, <2>8, <2>9 DEF CoStep, CallStep, Ioing, Still
<1> QED
  BY <1>1, <1>2, <1>3 DEF Next, Program, Still

-----------------------------------------------------------------------------
(* The handshake, and what comes in.                                       *)

LEMMA InsIs ==
  ASSUME TlsAssumption, NEW n \in 0 .. Len(Script)
  PROVE  /\ Ins(n) \in 0 .. Flights
         /\ n < Len(Script) /\ Script[n + 1] # "in" => Ins(n + 1) = Ins(n)
         /\ n < Len(Script) /\ Script[n + 1] = "in" => Ins(n + 1) = Ins(n) + 1 /\ Ins(n) + 1 <= Flights
<1> DEFINE S(i) == {k \in 1 .. i : Script[k] = "in"}
           All == {k \in DOMAIN Script : Script[k] = "in"}
<1>1. Len(Script) \in Nat /\ DOMAIN Script = 1 .. Len(Script)
  BY ComingIs
<1>2. IsFiniteSet(All) /\ Cardinality(All) \in Nat
  <2>1. IsFiniteSet(1 .. Len(Script))
    BY <1>1, FS_Interval
  <2>2. All \in SUBSET (1 .. Len(Script))
    BY <1>1
  <2> QED
    BY <2>1, <2>2, FS_Subset, FS_CardinalityType
<1>3. ASSUME NEW i \in 0 .. Len(Script)
      PROVE  IsFiniteSet(S(i)) /\ Cardinality(S(i)) \in Nat /\ Cardinality(S(i)) <= Cardinality(All)
  <2>1. S(i) \in SUBSET All
    BY <1>1
  <2> QED
    BY <1>2, <2>1, FS_Subset, FS_CardinalityType
<1>4. Ins(n) \in 0 .. Flights
  BY <1>2, <1>3 DEF Ins, Flights
<1>5. ASSUME n < Len(Script), Script[n + 1] # "in" PROVE Ins(n + 1) = Ins(n)
  <2>1. S(n + 1) = S(n)
    BY <1>1, <1>5
  <2> QED
    BY <2>1 DEF Ins
<1>6. ASSUME n < Len(Script), Script[n + 1] = "in" PROVE Ins(n + 1) = Ins(n) + 1 /\ Ins(n) + 1 <= Flights
  <2>1. S(n + 1) = S(n) \cup {n + 1} /\ n + 1 \notin S(n) /\ n + 1 \in 0 .. Len(Script)
    BY <1>1, <1>6
  <2>2. IsFiniteSet(S(n)) /\ Cardinality(S(n + 1)) <= Cardinality(All)
    BY <1>3, <2>1
  <2>3. Cardinality(S(n) \cup {n + 1}) = Cardinality(S(n)) + 1
    BY <2>1, <2>2, FS_AddElement
  <2> QED
    BY <2>1, <2>2, <2>3 DEF Ins, Flights
<1> QED
  BY <1>4, <1>5, <1>6

\* The pieces that are still to come of a part of the stream.
LEMMA PartNext ==
  ASSUME NEW s \in Seq(Seq(Nat)), NEW a \in 1 .. Len(s) + 1, NEW p \in 0 .. Len(s), a <= p + 1
  PROVE  /\ SubSeq(s, a, p) \in Seq(Seq(Nat))
         /\ p < Len(s) => SubSeq(s, a, p + 1) = Append(SubSeq(s, a, p), s[p + 1]) /\ s[p + 1] \in Seq(Nat)
         /\ SubSeq(s, a, p) # << >> =>
              a <= p /\ Head(SubSeq(s, a, p)) = s[a] /\ Tail(SubSeq(s, a, p)) = SubSeq(s, a + 1, p)
<1> DEFINE x == SubSeq(s, a, p)
<1>1. x \in Seq(Seq(Nat)) /\ Len(x) = p + 1 - a /\ \A k \in 1 .. p + 1 - a : x[k] = s[a + k - 1]
  OBVIOUS
<1>2. ASSUME p < Len(s) PROVE SubSeq(s, a, p + 1) = Append(x, s[p + 1]) /\ s[p + 1] \in Seq(Nat)
  <2> DEFINE y == SubSeq(s, a, p + 1)
             z == Append(x, s[p + 1])
  <2>1. s[p + 1] \in Seq(Nat)
    BY <1>2
  <2>2. y \in Seq(Seq(Nat)) /\ Len(y) = p + 2 - a /\ \A k \in 1 .. p + 2 - a : y[k] = s[a + k - 1]
    BY <1>2
  <2> HIDE DEF x
  <2>3. /\ z \in Seq(Seq(Nat)) /\ Len(z) = p + 2 - a
        /\ \A k \in 1 .. p + 2 - a : z[k] = IF k = p + 2 - a THEN s[p + 1] ELSE x[k]
    <3>1. x \in Seq(Seq(Nat)) /\ Len(x) + 1 = p + 2 - a /\ s[p + 1] \in Seq(Nat)
      BY <1>1, <2>1
    <3>2. z \in Seq(Seq(Nat)) /\ Len(z) = Len(x) + 1 /\ z[Len(x) + 1] = s[p + 1] /\ \A k \in 1 .. Len(x) : z[k] = x[k]
      BY <3>1, AppendProperties
    <3>3. \A k \in 1 .. p + 2 - a : k # p + 2 - a => k \in 1 .. Len(x)
      BY <3>1
    <3> HIDE DEF z
    <3> QED
      BY <3>1, <3>2, <3>3
  <2> HIDE DEF y, z
  <2>4. ASSUME NEW k \in 1 .. p + 2 - a PROVE y[k] = z[k]
    <3>1. CASE k = p + 2 - a
      <4>1. a + k - 1 = p + 1
        BY <3>1
      <4> QED
        BY <2>2, <2>3, <3>1, <4>1
    <3>2. CASE k # p + 2 - a
      <4>1. k \in 1 .. p + 1 - a
        BY <3>2
      <4> QED
        BY <1>1, <2>2, <2>3, <3>2, <4>1
    <3> QED
      BY <3>1, <3>2
  <2>5. y = z
    BY <2>2, <2>3, <2>4, SeqEqual
  <2> QED
    BY <2>1, <2>5 DEF x, y, z
<1>3. ASSUME x # << >> PROVE a <= p /\ Head(x) = s[a] /\ Tail(x) = SubSeq(s, a + 1, p)
  <2>1. Len(x) # 0 /\ a <= p
    BY <1>1, <1>3
  <2> DEFINE y == SubSeq(s, a + 1, p)
  <2>2. y \in Seq(Seq(Nat)) /\ Len(y) = p - a /\ \A k \in 1 .. p - a : y[k] = s[a + k]
    <3>1. y \in Seq(Seq(Nat)) /\ Len(y) = p - a /\ \A k \in 1 .. p - a : y[k] = s[(a + 1) + k - 1]
      BY <2>1
    <3>2. \A k \in 1 .. p - a : (a + 1) + k - 1 = a + k
      OBVIOUS
    <3> HIDE DEF y
    <3> QED
      BY <3>1, <3>2
  <2> HIDE DEF x, y
  <2>3. Head(x) = x[1] /\ x[1] = s[a] /\ Tail(x) \in Seq(Seq(Nat)) /\ Len(Tail(x)) = p - a
        /\ \A k \in 1 .. p - a : Tail(x)[k] = x[k + 1]
    BY <1>1, <1>3, <2>1
  <2>4. ASSUME NEW k \in 1 .. p - a PROVE Tail(x)[k] = y[k]
    <3>1. k + 1 \in 1 .. p + 1 - a /\ a + (k + 1) - 1 = a + k
      OBVIOUS
    <3> QED
      BY <1>1, <2>2, <2>3, <3>1
  <2>5. Tail(x) = y
    BY <2>2, <2>3, <2>4, SeqEqual
  <2> QED
    BY <2>1, <2>3, <2>5 DEF y
<1> QED
  BY <1>1, <1>2, <1>3

\* What is on its way from the peer.
OnItsWay == input \o arrived

LEMMA WayParts ==
  ASSUME TlsAssumption, TypeOK
  PROVE  /\ OnItsWay \in Seq(Seq(Nat)) /\ input \in Seq(Seq(Nat)) /\ arrived \in Seq(Seq(Nat))
         /\ input # << >> => /\ OnItsWay # << >> /\ Head(input) = Head(OnItsWay)
                             /\ Tail(input) \o arrived = Tail(OnItsWay)
<1>1. input \in Seq(Seq(Nat)) /\ arrived \in Seq(Seq(Nat))
  BY Parts
<1>2. ASSUME input # << >>
      PROVE  /\ OnItsWay # << >> /\ Head(input) = Head(OnItsWay) /\ Tail(input) \o arrived = Tail(OnItsWay)
  <2>1. Head(input) \in Seq(Nat) /\ Tail(input) \in Seq(Seq(Nat)) /\ input = <<Head(input)>> \o Tail(input)
    BY <1>1, <1>2, HeadTail
  <2> DEFINE h == Head(input)
             t == Tail(input)
  <2> HIDE DEF h, t
  <2>2. h \in Seq(Nat) /\ t \in Seq(Seq(Nat)) /\ <<h>> \in Seq(Seq(Nat)) /\ t \o arrived \in Seq(Seq(Nat))
    BY <1>1, <2>1 DEF h, t
  <2>3. OnItsWay = <<h>> \o (t \o arrived)
    BY <1>1, <2>1, <2>2, RegroupPieces DEF h, t, OnItsWay
  <2>4. /\ <<h>> \o (t \o arrived) # << >> /\ Head(<<h>> \o (t \o arrived)) = h
        /\ Tail(<<h>> \o (t \o arrived)) = t \o arrived
    BY <2>2, HeadTailOf
  <2> QED
    BY <2>3, <2>4 DEF h, t
<1>3. OnItsWay \in Seq(Seq(Nat))
  BY <1>1 DEF OnItsWay
<1> QED
  BY <1>1, <1>2, <1>3

\* A step of the handshake takes a piece that holds nothing.
LEMMA ShakeInDoes ==
  ASSUME TlsAssumption, TypeOK, Greeting, ShakeIn
  PROVE  /\ ~ Shaken /\ Head(input) = << >> /\ input' = Tail(input) /\ shake' = shake + 1 /\ input # << >>
         /\ Ins(shake + 1) = Ins(shake) + 1 /\ Ins(shake) + 1 <= peerSent /\ Ins(shake) \in Nat
         /\ OnItsWay = SubSeq(Coming, Ins(shake) + 1, peerSent)
         /\ Tail(OnItsWay) = SubSeq(Coming, Ins(shake) + 2, peerSent)
<1>1. ~ Shaken /\ Script[shake + 1] = "in" /\ input # << >> /\ input' = Tail(input) /\ shake' = shake + 1
  BY DEF ShakeIn, Shaking
<1>2. shake \in 0 .. Len(Script) /\ shake < Len(Script) /\ Len(Script) \in Nat
  BY <1>1, TypeParts, ComingIs DEF Places, Shaken
<1>3. /\ Ins(shake) \in Nat /\ Ins(shake + 1) = Ins(shake) + 1 /\ Ins(shake) + 1 <= Flights
  BY <1>1, <1>2, InsIs
<1>4. OnItsWay = SubSeq(Coming, Ins(shake) + 1, peerSent) /\ Ins(shake) <= peerSent
  BY <1>1 DEF Greeting, OnItsWay
<1>5. peerSent \in 0 .. Len(Coming) /\ Len(Coming) \in Nat /\ Coming \in Seq(Seq(Nat))
  BY Parts, ComingIs
<1> DEFINE a == Ins(shake) + 1
<1>6. a \in 1 .. Len(Coming) + 1 /\ a <= peerSent + 1
  BY <1>3, <1>4, <1>5
<1>7. OnItsWay # << >> /\ Head(input) = Head(OnItsWay)
  BY <1>1, WayParts
<1>8. a <= peerSent /\ Head(OnItsWay) = Coming[a] /\ Tail(OnItsWay) = SubSeq(Coming, a + 1, peerSent)
  <2> HIDE DEF a
  <2>1. OnItsWay = SubSeq(Coming, a, peerSent)
    BY <1>4 DEF a
  <2> QED
    BY <1>5, <1>6, <1>7, <2>1, PartNext
<1>9. Coming[a] = << >>
  <2>1. a \in DOMAIN Coming /\ a <= Flights
    BY <1>3, <1>5, <1>6, <1>8, ComingIs
  <2> QED
    BY <2>1 DEF TlsAssumption
<1>10. Ins(shake) + 1 <= peerSent /\ Tail(OnItsWay) = SubSeq(Coming, (Ins(shake) + 1) + 1, peerSent)
       /\ Head(input) = << >>
  BY <1>7, <1>8, <1>9
<1>11. (Ins(shake) + 1) + 1 = Ins(shake) + 2
  BY <1>3
<1> QED
  BY <1>1, <1>3, <1>4, <1>10, <1>11

Stream == Received \o Within(OnItsWay)

\* The stream stays as it is, or grows at its end.
LEMMA StreamStep ==
  ASSUME TlsAssumption, TypeOK, Ending, Greeting, [Next]_vars
  PROVE  \/ Stream' = Stream /\ peerSent' = peerSent
         \/ /\ peerSent < Len(Coming) /\ peerSent' = peerSent + 1
            /\ Stream' = Stream \o Coming[peerSent + 1]
<1>0. /\ used \in Seq(Nat) /\ Bytes(readbuf) \in Seq(Nat) /\ plain \in Seq(Nat)
      /\ Received \in Seq(Nat) /\ Within(OnItsWay) \in Seq(Nat)
      /\ OnItsWay \in Seq(Seq(Nat)) /\ input \in Seq(Seq(Nat)) /\ arrived \in Seq(Seq(Nat))
      /\ peerSent \in 0 .. Len(Coming) /\ Coming \in Seq(Seq(Nat)) /\ Len(Coming) \in Nat
  BY Parts, WayParts, FlatTyped, ComingIs DEF Within
<1>a. ASSUME UNCHANGED <<used, readbuf, plain>> PROVE Received' = Received
  BY <1>a DEF Received, Bytes
<1>b. ASSUME UNCHANGED <<used, readbuf, plain, input, arrived>> PROVE Stream' = Stream
  BY <1>a, <1>b DEF Stream, OnItsWay, Within
<1>1. CASE Environment
  <2>1. UNCHANGED <<used, readbuf, plain, input>>
    BY <1>1 DEF Environment, Peer, readVars, tlsVars
  <2>2. CASE PeerSends
    <3>1. peerSent < Len(Coming) /\ peerSent' = peerSent + 1 /\ arrived' = Append(arrived, Coming[peerSent'])
      BY <2>2 DEF PeerSends
    <3>2. Coming[peerSent + 1] \in Seq(Nat)
      BY <1>0, <3>1
    <3> DEFINE b == Coming[peerSent + 1]
    <3>3. arrived' = Append(arrived, b)
      BY <3>1
    <3> HIDE DEF b
    <3>4. OnItsWay' = Append(OnItsWay, b)
      <4>1. b \in Seq(Nat) /\ <<b>> \in Seq(Seq(Nat))
        BY <3>2 DEF b
      <4>2. Append(arrived, b) = arrived \o <<b>> /\ Append(OnItsWay, b) = OnItsWay \o <<b>>
        BY <1>0, <4>1, AppendIsConcat
      <4>3. (input \o arrived) \o <<b>> = input \o (arrived \o <<b>>)
        BY <1>0, <4>1, RegroupPieces
      <4> QED
        BY <2>1, <3>3, <4>2, <4>3 DEF OnItsWay
    <3>5. Within(OnItsWay') = Within(OnItsWay) \o b
      <4>1. b \in Seq(Nat)
        BY <3>2 DEF b
      <4>2. FlattenSeq(Append(OnItsWay, b)) = FlattenSeq(OnItsWay) \o b
        BY <1>0, <4>1, FlatAppended
      <4> QED
        BY <3>4, <4>2 DEF Within
    <3>6. Received \o (Within(OnItsWay) \o b) = (Received \o Within(OnItsWay)) \o b
      <4>1. Received \in Seq(Nat) /\ Within(OnItsWay) \in Seq(Nat) /\ b \in Seq(Nat)
        BY <1>0, <3>2 DEF b
      <4> QED
        BY <4>1, Regroup
    <3>7. Stream' = Stream \o b
      BY <1>a, <2>1, <3>5, <3>6 DEF Stream, Within
    <3> QED
      BY <3>1, <3>7 DEF b
  <2>3. CASE LinkUp \/ LinkDown \/ PeerShuts \/ PeerReads
    BY <1>b, <2>1, <2>3 DEF LinkUp, LinkDown, PeerShuts, PeerReads, sockVars
  <2> QED
    BY <1>1, <2>2, <2>3 DEF Environment, Peer
<1>2. CASE (LoopStep /\ Still) \/ RunStep \/ UNCHANGED vars
  BY <1>b, <1>2 DEF LoopStep, Still, RunStep, vars, connVars, peerVars, sockVars, readVars, tlsVars
<1>3. CASE Hangup /\ Handled /\ UNCHANGED input
  BY <1>b, <1>3, HangupDoes DEF peerVars, sockVars, readVars, tlsVars
<1>4. CASE Writable /\ Handled /\ UNCHANGED input
  BY <1>b, <1>4, WritableDoes DEF peerVars, sockVars, readVars, tlsVars
<1>5. CASE Receive /\ Handled
  <2>1. UNCHANGED <<used, readbuf, plain, peerSent>>
    BY <1>5, ReceiveDoes DEF readVars, peerVars
  <2>2. CASE input' = input \o arrived /\ arrived' = << >>
    <3>1. OnItsWay' = OnItsWay
      <4>1. OnItsWay \o << >> = OnItsWay
        BY <1>0, ConcatEmptySeq
      <4> QED
        BY <2>2, <4>1 DEF OnItsWay
    <3> QED
      BY <1>a, <2>1, <3>1 DEF Stream, Within
  <2>3. CASE UNCHANGED <<arrived, input>>
    BY <1>b, <2>1, <2>3
  <2> QED
    BY <1>5, <2>2, <2>3, ReceiveDoes
<1>6. CASE CoStep
  <2>0. peerSent' = peerSent
    BY <1>6 DEF CoStep, peerVars
  <2>1. CASE LookAtBuffer /\ Still
    <3>1. PICK look :
             /\ look = Try(format, readbuf, rpos, eof, tried)
             /\ readbuf' = look.buf /\ used' = used \o look.used
             /\ at = "read"
             /\ UNCHANGED sockVars
      BY <2>1, LookDoes
    <3>2. LookKeeps(DOMAIN Is, look)
      BY <3>1, LookTyped
    <3>3. look.used \in Seq(Nat) /\ Bytes(look.buf) \in Seq(Nat) /\ look.used \o Bytes(look.buf) = Bytes(readbuf)
      BY <3>2, Values DEF LookKeeps, InBytes, Bytes
    <3>4. used \o Bytes(readbuf) = (used \o look.used) \o Bytes(look.buf)
      <4> DEFINE b == Bytes(look.buf)
      <4> HIDE DEF b
      <4>0. used \in Seq(Nat) /\ look.used \in Seq(Nat) /\ b \in Seq(Nat)
        BY <1>0, <3>3 DEF b
      <4>1. (used \o look.used) \o b = used \o (look.used \o b)
        BY <4>0, Regroup
      <4> QED
        BY <3>3, <4>1 DEF b
    <3>5. Received' = Received
      BY <2>1, <3>1, <3>4 DEF Received, Bytes, Still, tlsVars
    <3>6. OnItsWay' = OnItsWay
      BY <2>1, <3>1 DEF OnItsWay, sockVars, Still, tlsVars
    <3> QED
      BY <2>0, <3>5, <3>6 DEF Stream, Within
  <2>2. CASE (Ioing \/ Enter) /\ Still
    BY <1>b, <2>0, <2>2
       DEF Ioing, SetTimer, Read, Write, Mode, Flush, StartDrain, Enter, sockVars, readVars, Still, tlsVars
  <2>3. CASE ShakeIn
    <3>1. UNCHANGED <<used, readbuf, plain, arrived>> /\ input' = Tail(input)
      BY <2>3 DEF ShakeIn, sockVars, readVars
    <3>2. Head(input) = << >> /\ input # << >>
      BY <2>3, ShakeInDoes
    <3>3. OnItsWay' = Tail(OnItsWay) /\ Head(OnItsWay) = << >> /\ OnItsWay # << >>
      BY <3>1, <3>2, WayParts DEF OnItsWay
    <3>4. FlattenSeq(OnItsWay) = Head(OnItsWay) \o FlattenSeq(Tail(OnItsWay)) /\ Tail(OnItsWay) \in Seq(Seq(Nat))
      BY <1>0, <3>3, FlatHead
    <3>5. FlattenSeq(Tail(OnItsWay)) \in Seq(Nat)
      BY <3>4, FlatTyped
    <3>6. FlattenSeq(OnItsWay) = FlattenSeq(Tail(OnItsWay))
      BY <3>3, <3>4, <3>5, ConcatEmptySeq
    <3>7. Within(OnItsWay') = Within(OnItsWay)
      BY <3>3, <3>6 DEF Within
    <3> QED
      BY <1>a, <2>0, <3>1, <3>7 DEF Stream, Within
  <2>4. CASE Decode
    <3>1. UNCHANGED <<used, readbuf, arrived>> /\ input' = Tail(input) /\ plain = << >> /\ plain' = Head(input)
          /\ input # << >>
      BY <2>4 DEF Decode, sockVars, readVars
    <3>3. OnItsWay' = Tail(OnItsWay) /\ Head(OnItsWay) = Head(input) /\ OnItsWay # << >>
      BY <3>1, WayParts DEF OnItsWay
    <3>4. FlattenSeq(OnItsWay) = Head(OnItsWay) \o FlattenSeq(Tail(OnItsWay)) /\ Tail(OnItsWay) \in Seq(Seq(Nat))
          /\ Head(OnItsWay) \in Seq(Nat)
      BY <1>0, <3>3, FlatHead
    <3> DEFINE h == Head(input)
               t == FlattenSeq(Tail(OnItsWay))
               r == used \o Bytes(readbuf)
    <3>5. h \in Seq(Nat) /\ t \in Seq(Nat) /\ r \in Seq(Nat)
      BY <1>0, <3>3, <3>4, FlatTyped, Joined
    <3>6. Received = r \o << >> /\ Received' = r \o h /\ Within(OnItsWay) = h \o t /\ Within(OnItsWay') = t
      BY <3>1, <3>3, <3>4 DEF Received, Bytes, Within
    <3> HIDE DEF h, t, r
    <3>7. r \o << >> = r /\ (r \o h) \o t = r \o (h \o t)
      BY <3>5, ConcatEmptySeq, Regroup
    <3>8. Stream = r \o (h \o t) /\ Stream' = (r \o h) \o t
      BY <3>6, <3>7 DEF Stream, Within
    <3> QED
      BY <2>0, <3>7, <3>8
  <2>5. CASE Refilled
    <3> DEFINE n == Least(BufferSize, Len(plain))
    <3>1. readbuf # Nil
      BY <2>5 DEF Refilled, Does, Ending
    <3>2. readbuf \in Seq(Nat) /\ Bytes(readbuf) = readbuf
      BY <3>1, Parts
    <3>3. n \in 0 .. Len(plain)
      <4>1. Len(plain) \in Nat /\ BufferSize \in Nat
        BY <1>0 DEF TlsAssumption
      <4> QED
        BY <4>1, LeastIn
    <3>4. /\ readbuf' = readbuf \o Take(plain, n) /\ plain' = Drop(plain, n)
          /\ UNCHANGED <<arrived, input, used>>
      BY <2>5 DEF Refilled, AddToBuffer, sockVars
    <3> HIDE DEF n
    <3> DEFINE f == Take(plain, n)
               d == Drop(plain, n)
    <3>5. f \in Seq(Nat) /\ d \in Seq(Nat) /\ f \o d = plain
      BY <1>0, <3>3, TakeDrop, TakeThenDrop
    <3> HIDE DEF f, d
    <3>6. readbuf \o f \in Seq(Nat) /\ Bytes(readbuf \o f) = readbuf \o f
      BY <3>2, <3>5, Joined, Values DEF Bytes
    <3>7. Received' = (used \o (readbuf \o f)) \o d
      BY <3>4, <3>6 DEF Received, Bytes, f, d
    <3>8. (used \o (readbuf \o f)) \o d = (used \o readbuf) \o (f \o d)
      <4>1. used \in Seq(Nat) /\ readbuf \in Seq(Nat) /\ f \in Seq(Nat) /\ d \in Seq(Nat)
        BY <1>0, <3>2, <3>5
      <4>2. used \o (readbuf \o f) = (used \o readbuf) \o f
        BY <4>1, Regroup
      <4> DEFINE r == used \o readbuf
      <4>3. r \in Seq(Nat)
        BY <4>1, Joined
      <4> HIDE DEF r
      <4>4. (r \o f) \o d = r \o (f \o d)
        BY <4>1, <4>3, Regroup
      <4> QED
        BY <4>2, <4>4 DEF r
    <3>9. Received' = Received
      BY <3>2, <3>5, <3>7, <3>8 DEF Received
    <3>10. OnItsWay' = OnItsWay
      BY <3>4 DEF OnItsWay
    <3> QED
      BY <2>0, <3>9, <3>10 DEF Stream, Within
  <2>6. CASE RefillEnds
    <3>1. UNCHANGED <<arrived, input, plain>>
          /\ (UNCHANGED <<used, readbuf>> \/ (used' = used \o Bytes(readbuf) /\ readbuf' = Nil))
      BY <2>6 DEF RefillEnds, sockVars, tlsVars
    <3>2. CASE UNCHANGED <<used, readbuf>>
      BY <1>b, <2>0, <3>1, <3>2
    <3>3. CASE used' = used \o Bytes(readbuf) /\ readbuf' = Nil
      <4> DEFINE r == used \o Bytes(readbuf)
      <4>1. r \in Seq(Nat)
        BY <1>0, Joined
      <4>2. Bytes(readbuf') = << >>
        BY <3>3 DEF Bytes
      <4>3. Received' = (r \o << >>) \o plain
        BY <3>1, <3>3, <4>2 DEF Received, Bytes
      <4>4. Received' = Received
        BY <4>1, <4>3, ConcatEmptySeq DEF Received
      <4> QED
        BY <2>0, <3>1, <4>4 DEF Stream, OnItsWay, Within
    <3> QED
      BY <3>1, <3>2, <3>3
  <2>7. CASE ShakeOut \/ WantInput \/ WantOutput \/ HandshakeDone \/ Seal \/ SendPiece \/ SendAll \/ SendSome
    BY <1>b, <2>0, <2>7 DEF ShakeOut, WantInput, WantOutput, HandshakeDone, Seal, SendPiece, SendAll, SendSome, SendLast,
       sockVars, readVars, tlsVars
  <2>8. CASE CallFails \/ CloseSocket \/ RemoveSocket
    BY <1>b, <2>0, <2>8 DEF CallFails, CloseSocket, RemoveSocket, sockVars, readVars, tlsVars
  <2> QED
    BY <1>6, <2>1, <2>2, <2>3, <2>4, <2>5, <2>6, <2>7, <2>8 DEF CoStep, CallStep, Still
<1> QED
  BY <1>1, <1>2, <1>3, <1>4, <1>5, <1>6 DEF Next, Program, Handle, Handled, Still, LoopStep, RunStep, peerVars,
     vars, connVars

LEMMA NothingLostStep ==
  ASSUME TlsAssumption, TypeOK, Ending, Greeting, NothingLost, [Next]_vars PROVE NothingLost'
<1>0. NothingLost <=> Stream = Within(SubSeq(Coming, 1, peerSent))
  BY DEF NothingLost, Stream, OnItsWay
<1>1. CASE Stream' = Stream /\ peerSent' = peerSent
  BY <1>0, <1>1 DEF NothingLost, Stream, OnItsWay, Within
<1>2. CASE /\ peerSent < Len(Coming) /\ peerSent' = peerSent + 1
           /\ Stream' = Stream \o Coming[peerSent + 1]
  <2>1. Coming \in Seq(Seq(Nat)) /\ peerSent \in 0 .. Len(Coming) /\ 1 \in 1 .. Len(Coming) + 1 /\ 1 <= peerSent + 1
    BY Parts, ComingIs
  <2> DEFINE sent == SubSeq(Coming, 1, peerSent)
             b == Coming[peerSent + 1]
  <2>2. SubSeq(Coming, 1, peerSent + 1) = Append(sent, b) /\ b \in Seq(Nat) /\ sent \in Seq(Seq(Nat))
    BY <1>2, <2>1, PartNext
  <2> HIDE DEF sent, b
  <2>3. FlattenSeq(Append(sent, b)) = FlattenSeq(sent) \o b
    BY <2>2, FlatAppended
  <2>4. Stream' = Within(SubSeq(Coming, 1, peerSent'))
    BY <1>0, <1>2, <2>2, <2>3 DEF Within, sent, b
  <2> QED
    BY <2>4 DEF NothingLost, Stream, OnItsWay, Within
<1> QED
  BY <1>1, <1>2, StreamStep

\* What has come in is the beginning of the stream, so it is in order.
LEMMA NothingLostInOrder == ASSUME TlsAssumption, TypeOK, NothingLost PROVE InOrder
<1> DEFINE sent == Within(SubSeq(Coming, 1, peerSent))
<1>1. PICK rest \in Seq(Nat) : Numbers(Len(Is)) = sent \o rest
  BY SentSoFar
<1>2. sent \in Seq(Nat)
  BY SentSoFar
<1>3. Received \o Within(input \o arrived) = sent
  BY DEF NothingLost
<1> HIDE DEF sent
<1>4. Len(Is) \in Nat /\ Len(Numbers(Len(Is))) = Len(Is) /\ \A k \in 1 .. Len(Is) : Numbers(Len(Is))[k] = k
  BY ComingIs, NumbersSeq
<1>5. ASSUME NEW k \in DOMAIN sent PROVE sent[k] = k
  <2>1. k \in 1 .. Len(sent) /\ k \in 1 .. Len(sent) + Len(rest) /\ Len(sent \o rest) = Len(sent) + Len(rest)
    BY <1>1, <1>2
  <2>2. (sent \o rest)[k] = sent[k]
    BY <1>1, <1>2, <2>1
  <2> QED
    BY <1>1, <1>4, <2>1, <2>2
<1>6. Increasing(sent)
  BY <1>5 DEF Increasing
<1> QED
  BY <1>3, <1>6 DEF InOrder

LEMMA GreetingStep ==
  ASSUME TlsAssumption, TypeOK, Ending, Greeting, Sending, [Next]_vars PROVE Greeting'
<1>s. Len(Script) \in Nat /\ shake \in 0 .. Len(Script)
  BY TypeParts, ComingIs DEF Places
<1>n. ASSUME Shaken, shake' = shake PROVE Greeting'
  BY <1>n DEF Greeting, Shaken
<1> SUFFICES ASSUME ~ Shaken PROVE Greeting'
  <2>1. CASE ShakeIn \/ ShakeOut
    BY <2>1 DEF ShakeIn, ShakeOut, Shaking
  <2>2. CASE ~ (ShakeIn \/ ShakeOut)
    <3>1. shake' = shake
      BY <2>2 DEF Next, Environment, Program, LoopStep, Handle, RunStep, CoStep, CallStep, WantInput, WantOutput,
         HandshakeDone, Decode, Refilled, RefillEnds, Seal, SendPiece, SendAll, SendSome, SendLast, CallFails,
         CloseSocket, RemoveSocket, vars, tlsVars
    <3> QED
      BY <1>n, <3>1
  <2> QED
    BY <2>1, <2>2
<1>0. /\ OnItsWay = SubSeq(Coming, Ins(shake) + 1, peerSent) /\ Ins(shake) <= peerSent
      /\ Bytes(readbuf) = << >> /\ rpos = 1 /\ plain = << >>
      /\ record = << >> /\ size = 0 /\ unit = Len(piece) /\ Len(piece) \in Nat
  BY OutParts DEF Greeting, OnItsWay
<1>i. Ins(shake) \in Nat
  BY <1>s, InsIs
<1>c. peerSent \in 0 .. Len(Coming) /\ Len(Coming) \in Nat /\ Coming \in Seq(Seq(Nat))
  BY Parts, ComingIs
\* Only one of the three parts of it is disturbed at a time.
<1> DEFINE Arriving == OnItsWay = SubSeq(Coming, Ins(shake) + 1, peerSent) /\ Ins(shake) <= peerSent
           Unread == Bytes(readbuf) = << >> /\ rpos = 1 /\ plain = << >>
           Unsealed == record = << >> /\ size = 0 /\ unit = Len(piece)
<1>a. ASSUME Arriving', Unread', Unsealed' PROVE Greeting'
  BY <1>a DEF Greeting, OnItsWay
<1>1. UNCHANGED <<input, arrived, shake, peerSent>> => Arriving'
  BY <1>0 DEF OnItsWay, Ins
<1>2. UNCHANGED <<readbuf, rpos, plain>> => Unread'
  BY <1>0 DEF Bytes
<1>3. UNCHANGED <<record, size, unit, piece>> => Unsealed'
  BY <1>0
<1> HIDE DEF Arriving, Unread, Unsealed
<1>4. CASE Environment
  <2>1. UNCHANGED <<readbuf, rpos, plain, record, size, unit, piece, input, shake>>
    BY <1>4 DEF Environment, Peer, readVars, writeVars, tlsVars
  <2>2. CASE PeerSends
    <3>1. peerSent < Len(Coming) /\ peerSent' = peerSent + 1 /\ arrived' = Append(arrived, Coming[peerSent'])
      BY <2>2 DEF PeerSends
    <3> DEFINE a == Ins(shake) + 1
               b == Coming[peerSent + 1]
    <3>2. a \in 1 .. Len(Coming) + 1 /\ a <= peerSent + 1
      BY <1>0, <1>i, <1>c
    <3> HIDE DEF a
    <3>3. SubSeq(Coming, a, peerSent + 1) = Append(SubSeq(Coming, a, peerSent), b) /\ b \in Seq(Nat)
      BY <1>c, <3>1, <3>2, PartNext
    <3>4. arrived' = Append(arrived, b)
      BY <3>1
    <3> HIDE DEF b
    <3>5. OnItsWay' = Append(OnItsWay, b)
      <4>1. b \in Seq(Nat) /\ <<b>> \in Seq(Seq(Nat)) /\ OnItsWay \in Seq(Seq(Nat))
            /\ input \in Seq(Seq(Nat)) /\ arrived \in Seq(Seq(Nat))
        BY <3>3, WayParts
      <4>2. Append(arrived, b) = arrived \o <<b>> /\ Append(OnItsWay, b) = OnItsWay \o <<b>>
        BY <4>1, AppendIsConcat
      <4>3. (input \o arrived) \o <<b>> = input \o (arrived \o <<b>>)
        BY <4>1, RegroupPieces
      <4> QED
        BY <2>1, <3>4, <4>2, <4>3 DEF OnItsWay
    <3>6. OnItsWay = SubSeq(Coming, a, peerSent)
      BY <1>0 DEF a
    <3>7. Ins(shake') = Ins(shake)
      BY <2>1 DEF Ins
    <3>8. OnItsWay' = SubSeq(Coming, a, peerSent') /\ a = Ins(shake') + 1 /\ Ins(shake') <= peerSent'
      <4>1. OnItsWay' = SubSeq(Coming, a, peerSent')
        BY <3>1, <3>3, <3>5, <3>6 DEF b
      <4>2. a = Ins(shake') + 1
        BY <3>7 DEF a
      <4>3. Ins(shake') <= peerSent'
        BY <1>0, <1>i, <1>c, <3>1, <3>7
      <4> QED
        BY <4>1, <4>2, <4>3
    <3>9. Arriving'
      BY <3>8 DEF Arriving, Ins
    <3> QED
      BY <1>a, <1>2, <1>3, <2>1, <3>9
  <2>3. CASE LinkUp \/ LinkDown \/ PeerShuts \/ PeerReads
    <3>1. UNCHANGED <<arrived, peerSent>>
      BY <2>3 DEF LinkUp, LinkDown, PeerShuts, PeerReads, sockVars
    <3> QED
      BY <1>a, <1>1, <1>2, <1>3, <2>1, <3>1
  <2> QED
    BY <1>4, <2>2, <2>3 DEF Environment, Peer
<1>5. CASE (LoopStep /\ Still) \/ RunStep \/ UNCHANGED vars
  <2>1. UNCHANGED <<input, arrived, shake, peerSent, readbuf, rpos, plain, record, size, unit, piece>>
    BY <1>5 DEF LoopStep, Still, RunStep, vars, connVars, peerVars, sockVars, readVars, writeVars, tlsVars
  <2> QED
    BY <1>a, <1>1, <1>2, <1>3, <2>1
<1>6. CASE Handle
  <2>1. UNCHANGED <<shake, peerSent, readbuf, rpos, plain, record, size, unit, piece>>
    BY <1>6 DEF Handle, peerVars, readVars, writeVars
  <2>2. CASE Receive /\ Handled
    <3>1. CASE input' = input \o arrived /\ arrived' = << >>
      <4>1. OnItsWay' = OnItsWay
        <5>1. OnItsWay \o << >> = OnItsWay
          BY WayParts, ConcatEmptySeq
        <5> QED
          BY <3>1, <5>1 DEF OnItsWay
      <4>2. Arriving'
        BY <1>0, <2>1, <4>1 DEF Arriving, Ins
      <4> QED
        BY <1>a, <1>2, <1>3, <2>1, <4>2
    <3>2. CASE UNCHANGED <<arrived, input>>
      BY <1>a, <1>1, <1>2, <1>3, <2>1, <3>2
    <3> QED
      BY <2>2, <3>1, <3>2, ReceiveDoes
  <2>3. CASE (Hangup \/ Writable) /\ UNCHANGED input
    BY <1>a, <1>1, <1>2, <1>3, <2>1, <2>3 DEF Hangup, Writable
  <2> QED
    BY <1>6, <2>2, <2>3 DEF Handle, Handled
<1>7. CASE CoStep
  <2>0. peerSent' = peerSent
    BY <1>7 DEF CoStep, peerVars
  <2>1. CASE (SetTimer \/ Read \/ Write \/ Enter) /\ Still
    <3>1. UNCHANGED <<input, arrived, shake, readbuf, rpos, plain, record, size, unit, piece>>
      BY <2>1 DEF SetTimer, Read, Write, Enter, sockVars, readVars, writeVars, Still, tlsVars
    <3> QED
      BY <1>a, <1>1, <1>2, <1>3, <2>0, <3>1
  <2>2. CASE (Mode \/ Flush) /\ Still
    <3>1. UNCHANGED <<input, arrived, shake, readbuf, rpos, plain, record, size>>
      BY <2>2 DEF Mode, Flush, sockVars, readVars, Still, tlsVars
    <3>2. UNCHANGED <<unit, piece>> \/ unit' = Len(piece')
      BY <2>2 DEF Mode, Flush, StartDrain
    <3>3. Unsealed'
      BY <1>0, <3>1, <3>2 DEF Unsealed
    <3> QED
      BY <1>a, <1>1, <1>2, <2>0, <3>1, <3>3
  <2>3. CASE LookAtBuffer /\ Still
    <3>1. PICK look :
             /\ look = Try(format, readbuf, rpos, eof, tried)
             /\ readbuf' = look.buf /\ rpos' = look.rpos
             /\ at = "read"
             /\ UNCHANGED <<sockVars, writeVars>>
      BY <2>3, LookDoes
    <3>2. LookKeeps(DOMAIN Is, look)
      BY <3>1, LookTyped
    <3>3. look.used \in Seq(Nat) /\ Bytes(look.buf) \in Seq(Nat) /\ look.used \o Bytes(look.buf) = << >>
      BY <1>0, <3>2, Values DEF LookKeeps, InBytes, Bytes
    <3>4. Bytes(look.buf) = << >>
      <4> DEFINE b == Bytes(look.buf)
      <4> HIDE DEF b
      <4>1. Len(look.used) + Len(b) = Len(look.used \o b) /\ Len(b) \in Nat /\ Len(look.used) \in Nat
            /\ b \in Seq(Nat)
        <5>1. look.used \in Seq(Nat) /\ b \in Seq(Nat)
          BY <3>3 DEF b
        <5> QED
          BY <5>1
      <4>2. Len(look.used \o b) = 0
        BY <3>3 DEF b
      <4>3. Len(b) = 0
        BY <4>1, <4>2
      <4> QED
        BY <4>1, <4>3 DEF b
    <3>5. look.rpos = 1
      <4>1. look.rpos \in {rpos, 1} \/ (readbuf # Nil /\ look.rpos = Len(readbuf) + 1)
        BY <3>2 DEF LookKeeps
      <4>2. readbuf # Nil => readbuf = << >>
        BY <1>0 DEF Bytes
      <4> QED
        BY <1>0, <4>1, <4>2
    <3>6. Unread'
      BY <1>0, <2>3, <3>1, <3>4, <3>5 DEF Unread, Bytes, Still, tlsVars
    <3>7. UNCHANGED <<input, arrived, shake, record, size, unit, piece>>
      BY <2>3, <3>1 DEF sockVars, writeVars, Still, tlsVars
    <3> QED
      BY <1>a, <1>1, <1>3, <2>0, <3>6, <3>7
  <2>4. CASE ShakeIn
    <3>1. /\ Ins(shake + 1) = Ins(shake) + 1 /\ Ins(shake) + 1 <= peerSent /\ Ins(shake) \in Nat
          /\ Tail(OnItsWay) = SubSeq(Coming, Ins(shake) + 2, peerSent) /\ shake' = shake + 1
          /\ input' = Tail(input) /\ input # << >>
      BY <2>4, ShakeInDoes
    <3>2. UNCHANGED <<arrived, readbuf, rpos, plain, record, size, unit, piece>>
      BY <2>4 DEF ShakeIn, sockVars, readVars, writeVars
    <3>3. OnItsWay' = Tail(OnItsWay)
      BY <3>1, <3>2, WayParts DEF OnItsWay
    <3>4. Ins(shake') = Ins(shake) + 1 /\ Ins(shake') + 1 = Ins(shake) + 2
      BY <3>1
    <3>5. Arriving'
      BY <2>0, <3>1, <3>3, <3>4 DEF Arriving, Ins
    <3> QED
      BY <1>a, <1>2, <1>3, <3>2, <3>5
  <2>5. CASE ShakeOut
    <3>1. Script[shake + 1] = "out" /\ shake' = shake + 1 /\ shake < Len(Script)
      BY <1>s, <2>5 DEF ShakeOut, Shaking, Shaken
    <3>2. UNCHANGED <<input, arrived, readbuf, rpos, plain, record, size, unit, piece>>
      BY <2>5 DEF ShakeOut, readVars, writeVars
    <3>3. Ins(shake + 1) = Ins(shake)
      BY <1>s, <3>1, InsIs
    <3>4. OnItsWay' = OnItsWay
      BY <3>2 DEF OnItsWay
    <3>5. Arriving'
      BY <1>0, <2>0, <3>1, <3>3, <3>4 DEF Arriving, Ins
    <3> QED
      BY <1>a, <1>2, <1>3, <3>2, <3>5
  <2>6. CASE WantInput \/ WantOutput \/ CloseSocket \/ RemoveSocket
    <3>1. UNCHANGED <<input, arrived, shake, readbuf, rpos, plain, record, size, unit, piece>>
      BY <2>6 DEF WantInput, WantOutput, CloseSocket, RemoveSocket, sockVars, readVars, writeVars, tlsVars
    <3> QED
      BY <1>a, <1>1, <1>2, <1>3, <2>0, <3>1
  <2>7. CASE CallFails
    <3>1. UNCHANGED <<input, arrived, shake, readbuf, rpos, plain, record>> /\ size' = 0
          /\ (UNCHANGED <<unit, piece>> \/ (unit' = 0 /\ piece' = << >>))
      BY <2>7 DEF CallFails, NotDrained, sockVars, readVars
    <3>2. unit' = Len(piece')
      BY <1>0, <3>1
    <3>3. Unsealed'
      BY <1>0, <3>1, <3>2 DEF Unsealed
    <3> QED
      BY <1>a, <1>1, <1>2, <2>0, <3>1, <3>3
  <2>8. ~ (HandshakeDone \/ Decode \/ Refilled \/ Seal \/ SendPiece \/ SendAll \/ SendSome \/ RefillEnds)
    BY DEF HandshakeDone, Decode, Refilled, Seal, SendPiece, SendAll, SendSome, SendLast, RefillEnds
  <2> QED
    BY <1>7, <2>1, <2>2, <2>3, <2>4, <2>5, <2>6, <2>7, <2>8 DEF CoStep, CallStep, Ioing, Still
<1> QED
  BY <1>4, <1>5, <1>6, <1>7 DEF Next, Program, Still

-----------------------------------------------------------------------------
(* Lines.                                                                  *)

\* What a look leaves, and what it gives when it is for a line.
LEMMA LineLookDoes ==
  ASSUME TlsAssumption, TypeOK, Ending, ~ eof, Lines, LookAtBuffer, format.kind = "line"
  PROVE  \/ /\ at' = "decrypt" /\ UNCHANGED <<readbuf, used>>
            /\ NoEnd /\ NoEndBefore(readbuf, rpos') /\ rpos' <= Len(readbuf) + 1
         \/ /\ at' = "app" /\ rpos' = 1
            /\ \E e \in 1 .. Len(readbuf) :
                 NoEndBefore(readbuf, e) /\ used' = used \o Take(readbuf, e) /\ readbuf' = Drop(readbuf, e)
<1>1. readbuf \in Seq(Nat) /\ used \in Seq(Nat) /\ NoEndBefore(readbuf, rpos) /\ rpos \in Nat
  BY Parts DEF TypeOK, ConnectionTypeOK, Ending, Lines
<1>2. Try(format, readbuf, rpos, eof, tried) = TryLine(readbuf, rpos)
  <2>1. format.kind # "bytes"
    OBVIOUS
  <2> QED
    BY <2>1, Zenon DEF Try
<1>3. CASE LineMissing(readbuf, rpos)
  <2>1. PICK next \in {rpos, Len(readbuf) + 1} :
               next <= Len(readbuf) + 1 /\ TryLine(readbuf, rpos) = More(readbuf, next)
    BY <1>3 DEF LineMissing
  <2>2. NoEnd /\ NoEndBefore(readbuf, next)
    BY <1>1, <1>3, <2>1 DEF NoEnd, LineMissing
  <2>3. at' = "decrypt" /\ readbuf' = readbuf /\ rpos' = next /\ used' = used \o << >>
    <3>1. /\ TryLine(readbuf, rpos).more /\ TryLine(readbuf, rpos).buf = readbuf
          /\ TryLine(readbuf, rpos).rpos = next /\ TryLine(readbuf, rpos).used = << >>
      BY <2>1 DEF More
    <3> QED
      BY <1>2, <3>1, LookDoes
  <2>4. used \o << >> = used
    BY <1>1, ConcatEmptySeq
  <2> QED
    BY <2>1, <2>2, <2>3, <2>4
<1>4. CASE LineThere(readbuf, rpos)
  <2>1. PICK e \in 1 .. Len(readbuf) :
              /\ NoEndBefore(readbuf, e)
              /\ \E data : TryLine(readbuf, rpos) = Found(data, Take(readbuf, e), Drop(readbuf, e), 1)
    BY <1>4, Zenon DEF LineThere
  <2>2. /\ at' = "app" /\ readbuf' = Drop(readbuf, e) /\ rpos' = 1
        /\ used' = used \o Take(readbuf, e)
    BY <1>2, <2>1, LookDoes DEF Found
  <2> QED
    BY <2>1, <2>2
<1> QED
  BY <1>1, <1>3, <1>4, LineLook

\* A read() of a line gives it up to its end and no further.
LEMMA LineStepHolds ==
  ASSUME TlsAssumption, TypeOK, Ending, Lines, [Next]_vars PROVE LineStep
<1> SUFFICES ASSUME Does("read"), format.kind = "line", ~ eof, at' = "app",
                    NEW k \in Len(used) + 1 .. Len(used') - 1
             PROVE  Is[used'[k]] # "lf"
  BY DEF LineStep
<1>1. at = "read" /\ loop = "co"
  BY DEF Does
<1>2. LookAtBuffer
  <2>1. ~ (Environment \/ LoopStep \/ Handle \/ UNCHANGED vars)
    BY <1>1 DEF Environment, Peer, LoopStep, Handle, vars, connVars
  <2>2. ~ RunStep
    BY <1>1 DEF RunStep, Start, ConnectDone, Again, WakeUp, EndRun, Resumed
  <2>3. ~ (Ioing \/ Enter)
    BY <1>1 DEF Ioing, SetTimer, Read, Write, Mode, Flush, Enter, Does
  <2>4. ~ CallStep
    BY <1>1 DEF CallStep, ShakeIn, ShakeOut, WantInput, WantOutput, HandshakeDone, Decode, Refilled, RefillEnds, Seal,
       SendPiece, SendAll, SendSome, SendLast, CallFails, CloseSocket, RemoveSocket, InCall, Calls, Does
  <2> QED
    BY <2>1, <2>2, <2>3, <2>4 DEF Next, Program, CoStep
<1>3. PICK e \in 1 .. Len(readbuf) : NoEndBefore(readbuf, e) /\ used' = used \o Take(readbuf, e)
  BY <1>2, LineLookDoes
<1>4. readbuf \in Seq(Nat) /\ used \in Seq(Nat)
  BY Parts DEF Ending
<1> DEFINE line == Take(readbuf, e)
           j == k - Len(used)
<1>5. line \in Seq(Nat) /\ Len(line) = e /\ \A i \in 1 .. e : line[i] = readbuf[i]
  <2>1. e \in 0 .. Len(readbuf)
    BY <1>4
  <2> HIDE DEF line
  <2>2. line = Take(readbuf, e)
    BY DEF line
  <2> QED
    BY <1>4, <2>1, <2>2, TakeDrop
<1> HIDE DEF line
<1>6. /\ Len(used \o line) = Len(used) + e
      /\ \A i \in 1 .. Len(used) + e : (used \o line)[i] = IF i <= Len(used) THEN used[i] ELSE line[i - Len(used)]
  BY <1>4, <1>5, ConcatProperties
<1>7. used' = used \o line
  BY <1>3 DEF line
<1>8. j \in 1 .. e - 1 /\ j \in 1 .. Len(readbuf) /\ j < e /\ k \in 1 .. Len(used) + e /\ ~ (k <= Len(used))
  BY <1>4, <1>6, <1>7
<1>9. used'[k] = readbuf[j]
  BY <1>5, <1>6, <1>7, <1>8
<1> QED
  BY <1>3, <1>8, <1>9 DEF NoEndBefore

LEMMA LinesStep ==
  ASSUME TlsAssumption, TypeOK, Ending, Greeting, Lines, [Next]_vars PROVE Lines'
<1> SUFFICES ASSUME ~ eof' PROVE Lines'
  BY DEF Lines
<1> USE DEF Lines, NoEnd
<1>a. ASSUME UNCHANGED <<eof, readbuf, rpos, format>>, at' = at \/ rpos = 1, at' # "decrypt" \/ at = "decrypt"
      PROVE  Lines'
  BY <1>a DEF NoEndBefore
<1>1. CASE Environment \/ (LoopStep /\ Still) \/ UNCHANGED vars
  BY <1>a, <1>1 DEF Environment, Peer, LoopStep, TimerDue, NoTimerDue, Wait, vars, connVars, readVars
<1>2. CASE Hangup /\ Handled /\ UNCHANGED input
  BY <1>2, HangupDoes
<1>3. CASE Receive /\ Handled
  <2>1. UNCHANGED <<at, readVars>> /\ (UNCHANGED eof \/ eof')
    BY <1>3, ReceiveDoes
  <2> QED
    BY <1>a, <2>1 DEF readVars
<1>4. CASE Writable /\ Handled /\ UNCHANGED input
  BY <1>a, <1>4, WritableDoes DEF readVars
<1>5. CASE RunStep
  <2>1. UNCHANGED <<eof, readbuf, rpos, format>>
    BY <1>5 DEF RunStep, Start, ConnectDone, Again, WakeUp, EndRun, readVars
  <2>2. at' = at \/ (at \in {"start", "connect", "nap"} /\ at' # "decrypt")
    BY <1>5 DEF RunStep, Start, ConnectDone, Again, WakeUp, EndRun, Resumed
  <2> QED
    BY <1>a, <2>1, <2>2
<1>6. CASE CoStep
  <2>1. CASE LookAtBuffer
    <3>1. /\ at = "read" /\ UNCHANGED <<eof, format>> /\ at' \in {"app", "decrypt"}
      BY <2>1, LookDoes
    <3>2. readbuf \in Seq(Nat) /\ ~ eof
      BY <3>1, Parts DEF Ending
    <3>3. format \in [kind : {"bytes", "line", "block", "all"}, n : Nat]
      BY DEF TypeOK, ConnectionTypeOK, TlsAssumption, ConnectionAssumption
    <3>4. CASE format.kind = "line"
      <4>1. CASE /\ at' = "decrypt" /\ UNCHANGED <<readbuf, used>>
                 /\ NoEnd /\ NoEndBefore(readbuf, rpos') /\ rpos' <= Len(readbuf) + 1
        BY <3>1, <3>4, <4>1
      <4>2. CASE at' = "app" /\ rpos' = 1
        BY <3>1, <3>4, <4>2 DEF NoEndBefore
      <4> QED
        BY <2>1, <3>2, <3>4, <4>1, <4>2, LineLookDoes
    <3>5. CASE format.kind # "line"
      <4>1. PICK look : look = Try(format, readbuf, rpos, eof, tried) /\ rpos' = look.rpos
        BY <2>1, LookDoes
      <4>2. look.rpos \in {rpos, 1}
        BY <3>2, <3>3, <3>5, <4>1, OtherLook
      <4>3. rpos' = 1
        BY <3>2, <3>5, <4>1, <4>2
      <4> QED
        BY <3>1, <3>5, <4>3 DEF NoEndBefore
    <3> QED
      BY <3>4, <3>5
  <2>2. CASE Read
    BY <2>2 DEF Read, Does, Go, NoEndBefore
  <2>3. CASE SetTimer \/ Write \/ Mode \/ Flush \/ Enter
    <3>1. UNCHANGED <<eof, readbuf, rpos, format>>
      BY <2>3 DEF SetTimer, Write, Mode, Flush, Enter, readVars
    <3>2. at \in {"app", "mode"} /\ at' # "decrypt"
      BY <2>3 DEF SetTimer, Write, Mode, Flush, Enter, StartDrain, Does, Go, Yield
    <3> QED
      BY <1>a, <3>1, <3>2
  <2>4. CASE Refilled
    <3> DEFINE f == Take(plain, Least(BufferSize, Len(plain)))
    <3>1. readbuf' = readbuf \o f /\ at = "decrypt" /\ at' = "read" /\ UNCHANGED <<eof, format, rpos>>
      BY <2>4 DEF Refilled, AddToBuffer, Does, Go
    <3>2. readbuf \in Seq(Nat) /\ rpos \in Nat
      BY <3>1, Parts DEF Ending, TypeOK, ConnectionTypeOK
    <3>3. f \in Seq(Nat)
      <4>1. Len(plain) \in Nat /\ BufferSize \in Nat /\ plain \in Seq(Nat)
        BY Parts DEF TlsAssumption
      <4> QED
        BY <4>1, LeastIn, TakeDrop
    <3> HIDE DEF f
    <3>4. rpos = 1 \/ (format.kind = "line" /\ NoEnd /\ rpos <= Len(readbuf) + 1)
      BY <3>1
    <3>5. Len(readbuf \o f) = Len(readbuf) + Len(f) /\ \A j \in 1 .. Len(readbuf) : (readbuf \o f)[j] = readbuf[j]
      BY <3>2, <3>3
    <3>6. ASSUME NEW j \in 1 .. Len(readbuf'), j < rpos PROVE Is[readbuf'[j]] # "lf"
      <4>1. j \in 1 .. Len(readbuf) /\ j < Len(readbuf) + 1 /\ NoEnd
        BY <3>2, <3>4, <3>6
      <4>2. readbuf'[j] = readbuf[j]
        BY <3>1, <3>5, <4>1
      <4> QED
        BY <4>1, <4>2 DEF NoEndBefore
    <3>7. NoEndBefore(readbuf', rpos')
      BY <3>1, <3>6 DEF NoEndBefore
    <3> QED
      BY <3>1, <3>4, <3>7
  <2>5. CASE RefillEnds
    BY <2>5 DEF RefillEnds
  <2>6. CASE CallFails
    <3>1. UNCHANGED <<eof, readbuf, rpos, format>> /\ at' # "decrypt"
      <4>1. then # "decrypt" /\ then \in {"app", "mode", "close"}
        BY DEF TypeOK, ConnectionTypeOK
      <4> QED
        BY <2>6, <4>1 DEF CallFails, NotDrained, Go, readVars
    <3>2. at # "read" /\ (at = "decrypt" => rpos = 1)
      <4>1. at # "read"
        BY <2>6 DEF CallFails, InCall, Calls
      <4>2. at = "decrypt" => ~ Shaken
        BY <2>6 DEF CallFails, Failing, Sends, Shaking
      <4> QED
        BY <4>1, <4>2 DEF Greeting
    <3> QED
      BY <1>a, <3>1, <3>2
  <2>7. CASE ShakeIn \/ ShakeOut \/ WantInput \/ WantOutput \/ HandshakeDone \/ Decode \/ Seal \/ SendPiece
             \/ SendAll \/ SendSome \/ CloseSocket \/ RemoveSocket
    <3>1. UNCHANGED <<eof, readbuf, rpos, format>>
      BY <2>7 DEF ShakeIn, ShakeOut, WantInput, WantOutput, HandshakeDone, Decode, Seal, SendPiece, SendAll,
         SendSome, SendLast, CloseSocket, RemoveSocket, readVars
    <3>2. at' = at \/ (at \in {"shake", "send", "close", "remove"} /\ at' # "decrypt")
      <4>1. then # "decrypt"
        BY DEF TypeOK, ConnectionTypeOK
      <4> QED
        BY <2>7, <4>1 DEF ShakeIn, ShakeOut, WantInput, WantOutput, HandshakeDone, Decode, Seal, SendPiece, SendAll,
           SendSome, SendLast, CloseSocket, RemoveSocket, Stay, Yield, Go, Drained, EndSocket, Does
    <3> QED
      BY <1>a, <3>1, <3>2
  <2> QED
    BY <1>6, <2>1, <2>2, <2>3, <2>4, <2>5, <2>6, <2>7 DEF CoStep, CallStep, Ioing
<1> QED
  BY <1>1, <1>2, <1>3, <1>4, <1>5, <1>6 DEF Next, Program, Handle, Handled, Still, peerVars

-----------------------------------------------------------------------------
(* The inductive invariant.                                                *)

IInv ==
  /\ TypeOK /\ Control /\ Connecting /\ Ending /\ Waiting
  /\ Greeting /\ NothingLost
  /\ Sending /\ AllWritten
  /\ Lines

LEMMA NothingYet == /\ << >> \o << >> = << >> /\ Numbers(0) = << >>
                    /\ Within(<< >>) = << >> /\ SubSeq(Coming, 1, 0) = << >>
<1>1. << >> \in Seq(Nat) /\ << >> \o << >> = << >>
  BY ConcatEmptySeq
<1> QED
  BY <1>1, FlatNone DEF Numbers, Within

LEMMA InitIInv == ASSUME TlsAssumption, Init PROVE IInv
<1> USE DEF Init, ConnectionInit
<1>0. /\ queued = Nil \/ (queued = Packet(<< >>) /\ queued # Nil /\ queued.kind = "data" /\ queued.bytes = << >>)
      /\ << >> # Nil /\ Bytes(readbuf) = << >>
  BY Values DEF Bytes
<1>1. TypeOK
  <2>1. /\ format \in Formats /\ << >> \in InBytes /\ << >> \in OutBytes /\ Len(Coming) \in Nat /\ Len(Script) \in Nat
        /\ Out \in Nat /\ Len(Is) \in Nat /\ Timers \in BOOLEAN
        /\ << >> \in Pieces(DOMAIN Is) /\ << >> \in Pieces(1 .. Out)
    BY DEF TlsAssumption, ConnectionAssumption, InBytes, OutBytes, Pieces
  <2>2. queued = Nil \/ queued \in [kind : {"data", "true", "false", "nil"}, bytes : InBytes]
    BY <2>1 DEF Packet, Value
  <2>3. armed \in BOOLEAN
    BY <2>1, Zenon
  <2>4. Places /\ ComingIn
    BY <2>1, <2>2 DEF Places, ComingIn
  <2>5. GoingOut
    <3>1. unit \in 0 .. Len(writebuf) /\ size \in 0 .. Len(piece)
      OBVIOUS
    <3> QED
      BY <2>1, <3>1 DEF GoingOut
  <2>6. Flags
    BY <2>3, Zenon DEF Flags
  <2>7. Position
    BY <2>1 DEF Position
  <2> QED
    BY <2>4, <2>5, <2>6, <2>7, TypeParts
<1>2. Control
  <2>1. awaits = "none" /\ at \notin Calls /\ loop = "run"
    BY DEF Calls
  <2>2. (at = "start" /\ queued # Nil /\ want = "r") \/ (at = "connect" /\ queued = Nil /\ want = "w")
    BY Values
  <2> QED
    BY <2>1, <2>2 DEF Control
<1>3. Connecting
  BY <1>0 DEF Connecting
<1>4. Ending
  BY <1>0 DEF Ending
<1>5. Waiting
  BY DEF Waiting
<1>6. OnItsWay = << >> /\ Received = << >>
  BY <1>0, NothingYet DEF OnItsWay, Received
<1>7. NothingLost
  BY <1>6, NothingYet DEF NothingLost, OnItsWay
<1>8. Greeting
  <2>1. Len(Script) \in Nat
    BY DEF TlsAssumption
  <2>2. Ins(shake) = 0
    <3>1. {k \in 1 .. 0 : Script[k] = "in"} = {}
      OBVIOUS
    <3> QED
      BY <3>1, FS_EmptySet DEF Ins
  <2>3. Len(piece) = 0
    OBVIOUS
  <2>4. ~ Shaken => SubSeq(Coming, Ins(shake) + 1, peerSent) = << >>
    BY <2>2, NothingYet
  <2> QED
    BY <1>0, <1>6, <2>2, <2>3, <2>4 DEF Greeting, OnItsWay
<1>9. Sending
  <2>1. PieceKept
    BY DEF PieceKept
  <2> QED
    BY <2>1 DEF Sending, Idle, Sealed
<1>10. AllWritten
  <2>1. Drop(writebuf, unit - Len(piece) + size) = << >>
    BY DEF Drop
  <2>2. (peerGot \o leaving) \o record = << >>
    BY NothingYet
  <2> QED
    BY <2>1, <2>2, NothingYet DEF AllWritten
<1>11. Lines
  BY <1>0 DEF Lines, NoEndBefore
<1> QED
  BY <1>1, <1>2, <1>3, <1>4, <1>5, <1>7, <1>8, <1>9, <1>10, <1>11 DEF IInv

LEMMA NextIInv == ASSUME TlsAssumption, IInv, [Next]_vars PROVE IInv'
<1> USE DEF IInv
<1>1. TypeOK'
  BY TypeStep
<1>2. Sending' /\ PieceKept'
  BY SendingStep DEF Sending
<1>3. AllWritten'
  BY <1>1, <1>2, AllWrittenStep
<1>4. Greeting' /\ NothingLost'
  BY GreetingStep, NothingLostStep
<1> QED
  BY <1>1, <1>2, <1>3, <1>4, ControlStep, ConnectingStep, EndingStep, WaitingStep, LinesStep

LEMMA Inductive == ASSUME TlsAssumption PROVE Spec => []IInv
<1>1. Init => IInv
  BY InitIInv
<1>2. IInv /\ [Next]_vars => IInv'
  BY NextIInv
<1> QED
  BY <1>1, <1>2, PTL DEF Spec
-----------------------------------------------------------------------------
(* What holds of a connection.                                             *)

LEMMA Gives == ASSUME TlsAssumption, IInv PROVE TypeOK /\ NothingLost /\ InOrder /\ AllWritten /\ RightEvent
<1>1. RightEvent
  BY DEF IInv, Waiting, RightEvent
<1> QED
  BY <1>1, NothingLostInOrder DEF IInv

\* The variables of lua/nfl/tls.lua and lua/net/ios.lua stay within their types,
\* for streams, handshakes, records and sockets of any size: among them _rpos,
\* which never gets more than one past the stream, and what of a unit is in a
\* record, which is never more than is left of the unit.
THEOREM TypesStay == ASSUME TlsAssumption PROVE Spec => []TypeOK
<1>1. IInv => TypeOK
  BY Gives
<1> QED
  BY <1>1, Inductive, PTL

\* Every byte the peer sent is in the socket, in ios.__input, with libtls, in
\* the buffer of ios or with the program, wherever timers and hangups break in:
\* what the coroutine is resumed with does not carry it.
THEOREM NoneLost == ASSUME TlsAssumption PROVE Spec => []NothingLost
<1>1. IInv => NothingLost
  BY Gives
<1> QED
  BY <1>1, Inductive, PTL

\* ... and none is there twice or before another that was sent earlier.
THEOREM KeepsOrder == ASSUME TlsAssumption PROVE Spec => []InOrder
<1>1. IInv => InOrder
  BY Gives
<1> QED
  BY <1>1, Inductive, PTL

\* What write() was given is with the peer, in the socket, in a record that
\* libtls has still to send or in _writebuf, each byte once, as long as the
\* connection is up: tls_write() is tried again with the rest of a unit without
\* sealing a part of it twice, whatever the size of records and of the socket.
THEOREM EachSentOnce == ASSUME TlsAssumption PROVE Spec => []AllWritten
<1>1. IInv => AllWritten
  BY Gives
<1> QED
  BY <1>1, Inductive, PTL

\* A coroutine that yielded in a call of libtls waits with the socket set to
\* what that call asked for, though a write may ask to read and a read to write.
THEOREM WaitsForTheRight == ASSUME TlsAssumption PROVE Spec => []RightEvent
<1>1. IInv => RightEvent
  BY Gives
<1> QED
  BY <1>1, Inductive, PTL

\* However records cut the stream, and wherever _rpos was left, a line that
\* read("*l") gives has no line end inside it.
THEOREM LinesAreWhole == ASSUME TlsAssumption PROVE Spec => LineWhole
<1>1. IInv /\ [Next]_vars => [LineStep]_connVars
  BY LineStepHolds DEF IInv
<1> QED
  BY <1>1, Inductive, PTL DEF Spec, LineWhole, vars

=============================================================================
