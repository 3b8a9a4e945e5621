----------------------------- MODULE Connection ------------------------------
(***************************************************************************)
(* What lua/nfl/tcp.lua and lua/nfl/tls.lua have in common: a coroutine    *)
(* that reads from and writes to a stream of lua/net/ios.lua, the socket   *)
(* below it with the peer at its other end, and the loop of lua/nfl.lua as *)
(* this coroutine sees it: timers first, then the wait, the handler of     *)
(* this socket, and the run queue.                                         *)
(*                                                                         *)
(* The bytes that come in are 1, 2, ..., and so are those that go out: a   *)
(* byte that is lost, repeated or out of place shows.  On the wire are     *)
(* these bytes, or what they are wrapped in.                               *)
(***************************************************************************)
EXTENDS Ios, Naturals, Sequences, FiniteSets

CONSTANTS Coming,       \* what the peer sends, piece by piece
          Out,          \* how many bytes the coroutine writes at most
          Formats,      \* what the coroutine reads: [kind, n]
          Modes, WSize, \* setvbuf()'s mode and size
          Window,       \* how many pieces the socket takes before the peer reads
          MaxGot,       \* bound: how many pieces the peer reads
          Timers        \* whether the coroutine sets timeouts for its calls

ConnectionAssumption ==
  /\ {Out, WSize, MaxGot} \subseteq Nat
  /\ WSize > 0          \* with 0, write() in mode "full" would not end
  /\ Window \in Nat \ {0}
  /\ Formats # {}
  /\ Formats \subseteq [kind : {"bytes", "line", "block", "all"}, n : Nat]
  /\ Modes \subseteq {"no", "line", "full"}
  /\ Timers \in BOOLEAN
  /\ Is \in Seq({"cr", "lf", "x"}) /\ IsOut \in [1 .. Out -> {"cr", "lf", "x"}]
  /\ Nil \notin Seq(Nat)
  /\ Nil \notin [kind : {"data", "true", "false", "nil"}, bytes : Seq(Nat)]

VARIABLES
  link,             \* the connection: "connecting", "up" or "down"
  arrived, leaving, \* what is in the socket: not received yet, not yet with the peer
  peerSent, fin,    \* how much the peer sent; whether it will send no more
  peerGot,          \* what the peer got
  want,             \* what SOCKETS waits for: "r", "w"; "none" once it is removed
  loop,             \* where the loop is: "timers", "wait", "run", "co" or at an event
  queued,           \* the coroutine's entry in RUNQUEUE, what it is resumed with
  armed,            \* whether the coroutine's timer is set
  at,               \* where the coroutine is
  format, tried,    \* the read() in progress
  readbuf, rpos, eof,  \* ios._readbuf, ios._rpos, ios._eof
  writebuf, mode,   \* ios._writebuf, ios._mode
  piece, unit,      \* what _drain() has left to send, and how much it was given
  then,             \* where the coroutine goes from there
  written,          \* how many bytes it wrote
  used,             \* the bytes that read() has taken off the buffer
  broken            \* whether a timer has broken into a call

peerVars == <<link, peerSent, fin, peerGot>>
sockVars == <<arrived, leaving>>
loopVars == <<want, loop, queued, armed, broken>>
readVars == <<format, tried, readbuf, rpos, used>>
writeVars == <<writebuf, mode, piece, unit, then, written>>
connVars == <<peerVars, sockVars, loopVars, at, eof, readVars, writeVars>>

Value(kind, bytes) == [kind |-> kind, bytes |-> bytes]
Packet(bytes) == Value("data", bytes)
True  == Value("true", << >>)
False == Value("false", << >>)

InBytes == Seq(DOMAIN Is)
OutBytes == Seq(1 .. Out)

ConnectionTypeOK ==
  /\ link \in {"connecting", "up", "down"}
  /\ peerSent \in 0 .. Len(Coming) /\ fin \in BOOLEAN
  /\ want \in {"r", "w", "none"}
  /\ loop \in {"timers", "wait", "hangup", "read", "write", "run", "co"}
  /\ queued = Nil \/ queued \in [kind : {"data", "true", "false", "nil"}, bytes : InBytes]
  /\ {armed, eof, tried, broken} \subseteq BOOLEAN
  /\ format \in Formats
  /\ readbuf = Nil \/ readbuf \in InBytes
  /\ rpos \in 1 .. Len(Is) + 1
  /\ {writebuf, piece} \subseteq OutBytes
  /\ mode \in Modes
  /\ unit \in 0 .. Len(writebuf)
  /\ then \in {"app", "mode", "close"}
  /\ written \in 0 .. Out
  /\ used \in InBytes

\* listens() spawns a coroutine for a connection it accepted; connecta() has
\* called connect() in the coroutine that asked for it.
ConnectionInit ==
  /\ \/ /\ at = "start"
        /\ link = "up" /\ want = "r" /\ queued = Packet(<< >>)
     \/ /\ at = "connect"
        /\ link = "connecting" /\ want = "w" /\ queued = Nil
  /\ armed = (Timers /\ at = "connect")
  /\ arrived = << >> /\ leaving = << >>
  /\ peerSent = 0 /\ fin = FALSE /\ peerGot = << >>
  /\ loop = "run"
  /\ format = (CHOOSE f \in Formats : TRUE) /\ tried = FALSE
  /\ readbuf = << >> /\ rpos = 1 /\ eof = FALSE /\ used = << >>
  /\ writebuf = << >> /\ mode \in Modes
  /\ piece = << >> /\ unit = 0 /\ then = "app" /\ written = 0
  /\ broken = FALSE
-----------------------------------------------------------------------------
(* The peer, and the connection.                                            *)

LinkUp == /\ link = "connecting"
          /\ link' = "up"
          /\ UNCHANGED <<peerSent, fin, peerGot, sockVars>>

\* Refused, reset, or closed by the peer: what was to leave is lost.
LinkDown == /\ link # "down"
            /\ link' = "down"
            /\ leaving' = << >>
            /\ UNCHANGED <<peerSent, fin, peerGot, arrived>>

PeerSends == /\ link = "up" /\ ~ fin /\ peerSent < Len(Coming)
             /\ peerSent' = peerSent + 1
             /\ arrived' = Append(arrived, Coming[peerSent'])
             /\ UNCHANGED <<link, fin, peerGot, leaving>>

PeerShuts == /\ link = "up" /\ ~ fin
             /\ fin' = TRUE
             /\ UNCHANGED <<link, peerSent, peerGot, sockVars>>

\* A unit that is sent once more after an error would give the peer more than
\* was written.
PeerReads == /\ link = "up" /\ leaving # << >> /\ Len(peerGot) < MaxGot
             /\ peerGot' = Append(peerGot, Head(leaving))
             /\ leaving' = Tail(leaving)
             /\ UNCHANGED <<link, peerSent, fin, arrived>>

Peer == /\ LinkUp \/ LinkDown \/ PeerSends \/ PeerShuts \/ PeerReads
        /\ UNCHANGED <<loopVars, at, eof, readVars, writeVars>>

Room == IF link = "up" THEN Window - Len(leaving) ELSE 0
-----------------------------------------------------------------------------
(* The event loop.                                                          *)

GoTo(label) == loop' = label

\* schedule(): what the coroutine is resumed with is what the first call gave.
Schedule(value) == queued' = IF queued = Nil THEN value ELSE queued

\* A timer is meant for a coroutine that connects or sleeps; in any other call
\* it breaks into that.
TimerDue == /\ loop = "timers" /\ armed
            /\ armed' = FALSE
            /\ broken' = (broken \/ at \notin {"connect", "nap"})
            /\ IF at = "ended" THEN UNCHANGED queued ELSE Schedule(False)
            /\ GoTo("wait")
            /\ UNCHANGED <<want, eof>>

NoTimerDue == loop = "timers" /\ GoTo("wait") /\ UNCHANGED <<want, queued, armed, broken, eof>>

\* What poll() reports of the socket, for as long as it is so; POLLHUP unasked.
Ready == IF want = "none" THEN {}
         ELSE {e \in {"hangup", "read", "write"} :
                 \/ e = "hangup" /\ link = "down"
                 \/ e = "read" /\ link = "up" /\ want = "r" /\ (arrived # << >> \/ fin)
                 \/ e = "write" /\ link = "up" /\ want = "w" /\ Len(leaving) < Window}

\* The wait returns with the event of this socket, or others' business.
Wait == /\ loop = "wait"
        /\ GoTo(IF Ready = {} THEN "run" ELSE CHOOSE e \in Ready : TRUE)
        /\ UNCHANGED <<want, queued, armed, broken, eof>>

LoopStep == /\ TimerDue \/ NoTimerDue \/ Wait
            /\ UNCHANGED <<peerVars, sockVars, at, readVars, writeVars>>

\* The parts that the two event handlers share.  A hangup is looked at first.
Hangup == /\ loop = "hangup"
          /\ eof' = TRUE
          /\ Schedule(Packet(<< >>))
          /\ UNCHANGED <<want, arrived>>

StayWriting == UNCHANGED want

BackToReading == want' = "r"

Writable == /\ loop = "write"
            /\ BackToReading
            /\ Schedule(True)
            /\ UNCHANGED <<arrived, eof>>

Resumed(here) == loop = "run" /\ queued # Nil /\ at = here /\ queued' = Nil /\ GoTo("co")

Start == /\ Resumed("start")
         /\ at' = "app"
         /\ UNCHANGED <<want, armed, broken, eof, readVars, writeVars>>

EndRun == /\ loop = "run" /\ queued = Nil
          /\ GoTo("timers")
          /\ UNCHANGED <<want, queued, armed, broken, at, eof, readVars, writeVars>>
-----------------------------------------------------------------------------
(* What the coroutine does.                                                 *)

Does(here) == loop = "co" /\ at = here
Go(here) == at' = here /\ UNCHANGED <<loop, queued, armed, broken>>
Yield(here) == at' = here /\ GoTo("run") /\ UNCHANGED <<queued, armed, broken>>

\* timeout(when, false, ...) and timeout(0).
SetTimer == /\ Does("app") /\ Timers
            /\ armed' = ~ armed
            /\ UNCHANGED <<sockVars, want, loop, queued, broken, at, eof, readVars, writeVars>>

Read == /\ Does("app")
        /\ format' \in Formats
        /\ tried' = FALSE
        /\ Go("read")
        /\ UNCHANGED <<sockVars, want, eof, readbuf, rpos, used, writeVars>>

\* read() returns, or asks _refill() for more.
Look(Refill) == /\ Does("read")
                /\ LET look == Try(format, readbuf, rpos, eof, tried)
                   IN /\ readbuf' = look.buf
                      /\ rpos' = look.rpos
                      /\ used' = used \o look.used
                      /\ IF look.more THEN Refill ELSE Go("app")
                /\ UNCHANGED <<sockVars, want, eof, format, tried, writeVars>>

ReplaceBuffer(bytes) == bytes

AddToBuffer(bytes) == readbuf \o bytes

\* write() refuses once the end was seen.
Write == /\ Does("app") /\ ~ eof
         /\ \E n \in 1 .. Out - written :
               /\ writebuf' = writebuf \o [k \in 1 .. n |-> written + k]
               /\ written' = written + n
         /\ Go("mode")
         /\ UNCHANGED <<sockVars, want, eof, readVars, mode, piece, unit, then>>

StartDrain(bytes, next) == /\ piece' = bytes
                           /\ unit' = Len(bytes)
                           /\ then' = next
                           /\ Go("send")

\* ios:_mode(): "line" and "full" drain one piece after the other.
Mode == /\ Does("mode")
        /\ LET bytes == Piece(mode, WSize, writebuf)
           IN IF bytes = Nil THEN Go("app") /\ UNCHANGED <<piece, unit, then>>
              ELSE StartDrain(bytes, IF mode = "no" THEN "app" ELSE "mode")
        /\ UNCHANGED <<sockVars, want, eof, readVars, writebuf, mode, written>>

Flush == /\ Does("app") /\ writebuf # << >>
         /\ StartDrain(writebuf, "app")
         /\ UNCHANGED <<sockVars, want, eof, readVars, writebuf, mode, written>>

DropSent == Drop(writebuf, Len(piece))

DropUnit == Drop(writebuf, unit)

\* What _drain() returns: the unit leaves the buffer, or stays there whole.
Drained == /\ writebuf' = DropUnit
           /\ piece' = << >> /\ unit' = 0
           /\ Go(then)

NotDrained == /\ piece' = << >> /\ unit' = 0
              /\ Go(IF then = "close" THEN "close" ELSE "app")

\* The rest of close(), with which the coroutine ends.
EndSocket == /\ want' = "none"
             /\ Yield("ended")

Ioing == SetTimer \/ Read \/ Write \/ Mode \/ Flush
-----------------------------------------------------------------------------
Numbers(n) == [k \in 1 .. n |-> k]
Increasing(s) == \A j, k \in DOMAIN s : j < k => s[j] < s[k]

\* A line ends at the first line end there is, whichever packets it came in.
LineStep == Does("read") /\ format.kind = "line" /\ ~ eof /\ ~ broken /\ at' = "app" =>
              \A k \in Len(used) + 1 .. Len(used') - 1 : Is[used'[k]] # "lf"

LineWhole == [][LineStep]_connVars
=============================================================================
