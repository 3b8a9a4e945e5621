----------------------------- MODULE Transports ------------------------------
(***************************************************************************)
(* The connections that lua/nfl.lua serves, those of lua/nfl/tcp.lua and   *)
(* of lua/nfl/tls.lua.  The initial state chooses one of three: one that   *)
(* is mostly read from, one that is mostly written to, and one that is     *)
(* encrypted.  The instances are of the modules that add the theorems to   *)
(* Tcp and Tls, for Transports_proofs to cite.                             *)
(***************************************************************************)
EXTENDS Naturals, Sequences

CONSTANTS Nil,
          Reader, Writer, Secure   \* what Tcp and Tls declare, for each of the three

VARIABLES
  which, link, arrived, leaving, peerSent, fin, peerGot, want, loop, queued, armed, at,
  format, tried, readbuf, rpos, eof, writebuf, mode, piece, unit, then, written, used, broken,
  overslept, dropped, input, shake, plain, record, size, awaits

tcpVars == <<overslept, dropped>>
tlsVars == <<input, shake, plain, record, size, awaits>>

R == INSTANCE Tcp_proofs WITH
       Coming <- Reader.Coming, Out <- Reader.Out, Is <- Reader.Is, IsOut <- Reader.IsOut,
       Formats <- Reader.Formats, Modes <- Reader.Modes, WSize <- Reader.WSize,
       Window <- Reader.Window, MaxGot <- Reader.MaxGot, Timers <- Reader.Timers

W == INSTANCE Tcp_proofs WITH
       Coming <- Writer.Coming, Out <- Writer.Out, Is <- Writer.Is, IsOut <- Writer.IsOut,
       Formats <- Writer.Formats, Modes <- Writer.Modes, WSize <- Writer.WSize,
       Window <- Writer.Window, MaxGot <- Writer.MaxGot, Timers <- Writer.Timers

T == INSTANCE Tls_proofs WITH
       Coming <- Secure.Coming, Out <- Secure.Out, Is <- Secure.Is, IsOut <- Secure.IsOut,
       Formats <- Secure.Formats, Modes <- Secure.Modes, WSize <- Secure.WSize,
       Window <- Secure.Window, MaxGot <- Secure.MaxGot, Timers <- Secure.Timers,
       Script <- Secure.Script, BufferSize <- Secure.BufferSize, MaxRecord <- Secure.MaxRecord,
       Bye <- Secure.Bye

ASSUME Assumptions == R!TcpAssumption /\ W!TcpAssumption /\ T!TlsAssumption

vars == <<which, T!vars, tcpVars>>

\* There is nothing of Tls in the other two, nor of theirs in it.
NoTls == /\ input = << >> /\ shake = 0 /\ plain = << >>
         /\ record = << >> /\ size = 0 /\ awaits = "none"

NoTcp == overslept = {} /\ dropped = {}

Init == \/ which = "reader" /\ R!Init /\ NoTls
        \/ which = "writer" /\ W!Init /\ NoTls
        \/ which = "tls"    /\ T!Init /\ NoTcp

Step(r, w, t) == /\ \/ which = "reader" /\ r /\ UNCHANGED tlsVars
                    \/ which = "writer" /\ w /\ UNCHANGED tlsVars
                    \/ which = "tls"    /\ t /\ UNCHANGED tcpVars
                 /\ UNCHANGED which

Next == Step(R!Next, W!Next, T!Next)

Spec == Init /\ [][Next]_vars

FairSpec == Spec /\ WF_vars(Step(R!Program, W!Program, T!Program))
-----------------------------------------------------------------------------
Each(r, w, t) == /\ which = "reader" => r
                 /\ which = "writer" => w
                 /\ which = "tls" => t

\* See Tcp and Tls for what these say.
TypeOK == which \in {"reader", "writer", "tls"} /\ Each(R!TypeOK, W!TypeOK, T!TypeOK)

\* What comes in is neither lost nor repeated nor out of order.
NothingLost == Each(R!NothingLost, W!NothingLost, T!NothingLost)
InOrder == Each(R!InOrder, W!InOrder, T!InOrder)

\* What is written gets to the peer, once.
AllWritten == Each(R!AllWritten, W!AllWritten, T!AllWritten)

\* The socket waits for what the coroutine waits for.
RightEvent == Each(R!RightEvent, W!RightEvent, T!RightEvent)

\* Lines are told apart whichever way the packets are cut.
LineStep == Each(R!LineStep, W!LineStep, T!LineStep)
LineWhole == [][LineStep]_vars

\* A coroutine that waits for what is there is resumed.
ReadDue == Each(R!ReadDue, W!ReadDue, T!ReadDue)
WriteDue == Each(R!WriteDue, W!WriteDue, T!WriteDue)
ReadServed == Each(R!ReadServed, W!ReadServed, T!ReadServed)
WriteServed == Each(R!WriteServed, W!WriteServed, T!WriteServed)
Served == (ReadDue ~> ReadServed) /\ (WriteDue ~> WriteServed)

\* _refill() returns nil at the end of the stream.
EndIsNil == Each(R!EndIsNil, W!EndIsNil, TRUE)

\* read() gives all there is before it gives the end.
EndIsEnd == [][which = "tls" => T!EndStep]_vars
-----------------------------------------------------------------------------
(* The small connections that TLC takes.                                    *)

Format(kind, n) == [kind |-> kind, n |-> n]

\* A line and an empty one come in.
SmallReader ==
  [Coming |-> <<1, 2, 3>>, Out |-> 0, Is |-> <<"x", "lf", "lf">>, IsOut |-> << >>,
   Formats |-> {Format("bytes", 2), Format("line", 0), Format("all", 0)},
   Modes |-> {"no"}, WSize |-> 2, Window |-> 1, MaxGot |-> 0, Timers |-> TRUE]

\* A line and another byte go out, through a socket that takes one at a time.
SmallWriter ==
  [Coming |-> <<1>>, Out |-> 2, Is |-> <<"x">>, IsOut |-> <<"lf", "x">>,
   Formats |-> {Format("block", 0)},
   Modes |-> {"no", "line", "full"}, WSize |-> 2, Window |-> 1, MaxGot |-> 2, Timers |-> TRUE]

\* A handshake, a record with a CRLF, of which half can be read at a time, and
\* the good-bye come in; two records go out, in pieces.
SmallSecure ==
  [Coming |-> <<<< >>, <<1, 2>>, << >>>>, Out |-> 2, Is |-> <<"cr", "lf">>, IsOut |-> <<"x", "x">>,
   Formats |-> {Format("line", 0)},
   Modes |-> {"no"}, WSize |-> 2, Window |-> 1, MaxGot |-> 6, Timers |-> TRUE,
   Script |-> <<"in", "out">>, BufferSize |-> 1, MaxRecord |-> 1, Bye |-> TRUE]
=============================================================================
