--------------------------------- MODULE Tcp ---------------------------------
(***************************************************************************)
(* A connection of lua/nfl/tcp.lua.  Its handler gives what it receives to *)
(* the coroutine by way of schedule(): _refill() returns what the          *)
(* coroutine is resumed with.                                              *)
(***************************************************************************)
EXTENDS Connection, Functions

TcpAssumption == ConnectionAssumption /\ Coming = [k \in DOMAIN Is |-> k]

VARIABLES
  overslept,   \* bytes that came in while the coroutine slept
  dropped      \* bytes that came in while it was in a call that had no use for them

lostVars == <<overslept, dropped>>
vars == <<connVars, lostVars>>

TypeOK == /\ ConnectionTypeOK
          /\ arrived \in InBytes /\ leaving \in OutBytes
          /\ peerGot \in OutBytes
          /\ overslept \subseteq DOMAIN Is /\ dropped \subseteq DOMAIN Is
          /\ at \in {"start", "connect", "nap", "app", "read", "refill", "mode", "send", "drain",
                     "close", "ended"}

Init == ConnectionInit /\ overslept = {} /\ dropped = {}
-----------------------------------------------------------------------------
(* The event handler of create_handler().                                   *)

\* Who gets what came in: a coroutine that sleeps takes no notice of what it is
\* resumed with, and neither does one that waits for room; the one that waits
\* for bytes gets them, unless schedule() has another value for it already.
Account ==
  LET lost == IF at = "refill" /\ queued = Nil THEN {} ELSE Range(arrived)
  IN IF at = "nap" THEN overslept' = overslept \cup lost /\ UNCHANGED dropped
                   ELSE dropped' = dropped \cup lost /\ UNCHANGED overslept

\* recv() takes what there is; the empty packet is the end; it may fail.
Receive == /\ loop = "read"
           /\ \/ /\ arrived # << >> \/ fin
                 /\ eof' = (arrived = << >>)
                 /\ Schedule(Packet(arrived))
                 /\ arrived' = << >>
                 /\ Account
              \/ /\ link = "down"
                 /\ Schedule(False)
                 /\ UNCHANGED <<arrived, eof, lostVars>>
           /\ UNCHANGED want

Handle == /\ \/ Receive
             \/ (Hangup \/ Writable) /\ UNCHANGED lostVars
          /\ GoTo("run")
          /\ UNCHANGED <<peerVars, leaving, armed, broken, at, readVars, writeVars>>
-----------------------------------------------------------------------------
(* The coroutine is resumed.                                                *)

\* connecta(), after its yield.
ConnectDone == /\ Resumed("connect")
               /\ armed' = FALSE
               /\ IF queued.kind = "false" THEN at' = "close"
                  ELSE at' = IF eof THEN "close" ELSE "app"
               /\ UNCHANGED <<want, broken, eof, readVars, writeVars>>

\* refill(): what is no packet makes read() return nil.
Refilled == /\ Resumed("refill")
            /\ IF queued.kind = "data"
               THEN readbuf' = AddToBuffer(queued.bytes) /\ tried' = TRUE /\ at' = "read"
               ELSE at' = "app" /\ UNCHANGED <<readbuf, tried>>
            /\ UNCHANGED <<want, armed, broken, eof, format, rpos, used, writeVars>>

\* _drain() takes no notice of what it is resumed with.
DrainOn == /\ Resumed("drain")
           /\ at' = "send"
           /\ UNCHANGED <<want, armed, broken, eof, readVars, writeVars>>

\* nfl.timeout() and a yield of the program's own: whatever the coroutine is
\* resumed with, it is awake.
WakeUp == /\ Resumed("nap")
          /\ at' = "app"
          /\ UNCHANGED <<want, armed, broken, eof, readVars, writeVars>>

RunStep == /\ Start \/ ConnectDone \/ Refilled \/ DrainOn \/ WakeUp \/ EndRun
           /\ UNCHANGED <<peerVars, sockVars, lostVars>>
-----------------------------------------------------------------------------
(* What the coroutine does.                                                 *)

\* _refill() yields.
LookAtBuffer == Look(Yield("refill"))

\* It sleeps on its timer, and may be woken by the handler before.
Nap == /\ Does("app") /\ armed
       /\ Yield("nap")
       /\ UNCHANGED <<sockVars, want, eof, readVars, writeVars>>

Close == /\ Does("app")
         /\ IF writebuf = << >> THEN Go("close") /\ UNCHANGED <<piece, unit, then>>
            ELSE StartDrain(writebuf, "close")
         /\ UNCHANGED <<sockVars, want, eof, readVars, writebuf, mode, written>>

\* _drain(): send() takes what the socket has room for.  If that is not all,
\* the coroutine waits until there is room again.
SendAll == /\ Does("send") /\ Len(piece) <= Room
           /\ leaving' = leaving \o piece
           /\ Drained
           /\ UNCHANGED <<arrived, want, eof, readVars, mode, then, written>>

SendSome == /\ Does("send") /\ Room > 0 /\ Len(piece) > Room
            /\ leaving' = leaving \o Take(piece, Room)
            /\ piece' = Drop(piece, Room)
            /\ want' = "w"
            /\ Yield("drain")
            /\ UNCHANGED <<arrived, eof, readVars, writebuf, mode, unit, then, written>>

\* No room at all is an error like any other: the buffer keeps the whole unit.
SendFails == /\ Does("send") /\ Room = 0
             /\ NotDrained
             /\ UNCHANGED <<sockVars, want, eof, readVars, writebuf, mode, then, written>>

CloseSocket == /\ Does("close")
               /\ EndSocket
               /\ UNCHANGED <<sockVars, eof, readVars, writeVars>>

CoStep == /\ \/ Ioing \/ LookAtBuffer \/ Nap
             \/ Close \/ SendAll \/ SendSome \/ SendFails \/ CloseSocket
          /\ UNCHANGED <<peerVars, lostVars>>

Environment == Peer /\ UNCHANGED lostVars

Program == \/ LoopStep /\ UNCHANGED lostVars
           \/ Handle \/ RunStep \/ CoStep

Next == Environment \/ Program

Spec == Init /\ [][Next]_vars

\* The loop goes on, and so does the coroutine; the peer does what it likes.
FairSpec == Spec /\ WF_vars(Program)
-----------------------------------------------------------------------------
InHand == IF at = "refill" /\ queued # Nil THEN queued.bytes ELSE << >>
Received == used \o Bytes(readbuf) \o InHand

\* Every byte the peer sent is in one place on its way from the socket through
\* the run queue and the buffer to the program, if it came in while the
\* coroutine waited for bytes, whatever timers have broken into before.  It is
\* lost if it came in while the coroutine slept.  In a call it is lost only when
\* a timer breaks in: one that has scheduled the coroutine in the same pass, or
\* one that made it leave a write with the socket waiting for the wrong event.
NothingLost ==
  /\ Range(Received \o arrived) = (1 .. peerSent) \ (overslept \cup dropped)
  /\ dropped # {} => broken

\* None is given out twice, nor in another order.
InOrder == Increasing(Received \o arrived)

\* What the peer got, the socket holds and the buffer has still to send is what
\* was written, as long as the connection is up and no timer broke into a call:
\* a unit that was sent in part is not sent again.
AllWritten ==
  link = "up" /\ ~ broken =>
     peerGot \o leaving \o Drop(writebuf, unit - Len(piece)) = Numbers(written)

\* A coroutine that waits for bytes has the socket wait for them too, and not
\* for room to write, and the other way round; else it would be woken for the
\* wrong reason, or never.
RightEvent ==
  ~ broken /\ queued = Nil /\ loop \notin {"hangup", "read", "write"} =>
     /\ at = "refill" => want = "r"
     /\ at = "drain" => want = "w"

\* Whoever waits for bytes, or for room, is resumed once they are there, unless
\* a timer has broken in: a failed write may leave the socket waiting for room.
ReadDue == at = "refill" /\ (arrived # << >> \/ fin \/ link = "down")
WriteDue == at = "drain" /\ Room > 0
ReadServed == at # "refill" \/ broken
WriteServed == at # "drain" \/ broken
Served == (ReadDue ~> ReadServed) /\ (WriteDue ~> WriteServed)

\* lua/net/ios.lua of _refill(): "data (string) data to collect, nil on
\* error/EOF".
EndIsNil == at = "refill" /\ queued # Nil /\ eof => queued.kind # "data"
=============================================================================
