--------------------------------- MODULE Tls ---------------------------------
(***************************************************************************)
(* A connection of lua/nfl/tls.lua.  Its handler puts what it receives     *)
(* aside in ios.__input, and resumes the coroutine to try again whatever   *)
(* call of libtls it was in.  libtls takes records from there, and sends   *)
(* records, through the callbacks of src/tls.c; when they have nothing to  *)
(* give or no room, the call returns WANT_INPUT or WANT_OUTPUT and the     *)
(* coroutine yields.  Any call begins with the rest of the handshake.      *)
(*                                                                         *)
(* A piece on the wire is a part of a record, known by the bytes that can  *)
(* be read once libtls has it: << >> for those before the last one of a    *)
(* record, and for handshake and close.                                    *)
(***************************************************************************)
EXTENDS Connection, SequencesExt

CONSTANTS Script,      \* the handshake: what is received, "in", and sent, "out"
          BufferSize,  \* tls.BUFFERSIZE, the most that _refill() asks for
          MaxRecord,   \* how many bytes libtls puts in a record
          Bye          \* whether the last piece that the peer sends is its close_notify

\* How many pieces of the peer's are its part of the handshake.
Flights == Cardinality({k \in DOMAIN Script : Script[k] = "in"})

TlsAssumption == /\ ConnectionAssumption
                 /\ Coming \in Seq(Seq(DOMAIN Is)) /\ FlattenSeq(Coming) = Numbers(Len(Is))
                 /\ Script \in Seq({"in", "out"})
                 /\ \A k \in DOMAIN Coming : k <= Flights => Coming[k] = << >>
                 /\ BufferSize \in Nat \ {0} /\ MaxRecord \in Nat \ {0}
                 /\ Bye \in BOOLEAN
                 /\ Bye => Len(Coming) > Flights /\ Coming[Len(Coming)] = << >>

VARIABLES
  input,        \* ios.__input
  shake,        \* how far the handshake is
  plain,        \* bytes libtls has taken from a record and not given yet
  record, size, \* what is left to send of a record, and how many bytes are in it
  awaits        \* what the coroutine that has yielded waits for: "input", "output"

tlsVars == <<input, shake, plain, record, size, awaits>>
vars == <<connVars, tlsVars>>

Pieces(bytes) == Seq(Seq(bytes))

TypeOK == /\ ConnectionTypeOK
          /\ {arrived, input} \subseteq Pieces(DOMAIN Is) /\ plain \in InBytes
          /\ {leaving, peerGot, record} \subseteq Pieces(1 .. Out)
          /\ at \in {"start", "connect", "nap", "app", "read", "mode", "shake", "decrypt", "send",
                     "close", "remove", "ended"}
          /\ shake \in 0 .. Len(Script)
          /\ size \in 0 .. Len(piece)
          /\ awaits \in {"none", "input", "output"}

Init == /\ ConnectionInit
        /\ input = << >> /\ shake = 0 /\ plain = << >>
        /\ record = << >> /\ size = 0
        /\ awaits = "none"
-----------------------------------------------------------------------------
(* The event handler of create_handler().                                   *)

\* The coroutine is resumed without a value, which connecta() takes for an error.
Nothing == Value("nil", << >>)

Receive == /\ loop = "read"
           /\ \/ /\ arrived # << >>
                 /\ input' = input \o arrived /\ arrived' = << >>
                 /\ Schedule(Nothing)
                 /\ UNCHANGED eof
              \/ /\ arrived = << >> /\ fin
                 /\ eof' = TRUE
                 /\ Schedule(Nothing)
                 /\ UNCHANGED <<arrived, input>>
              \/ /\ link = "down"
                 /\ Schedule(False)
                 /\ UNCHANGED <<arrived, input, eof>>
           /\ UNCHANGED want

Handle == /\ \/ Receive
             \/ (Hangup \/ Writable) /\ UNCHANGED input
          /\ GoTo("run")
          /\ UNCHANGED <<peerVars, leaving, armed, broken, at, readVars, writeVars,
                         shake, plain, record, size, awaits>>
-----------------------------------------------------------------------------
(* The coroutine is resumed.                                                *)

\* The calls of libtls that a yield is followed by once more.
Calls == {"shake", "decrypt", "send", "close"}

Again == /\ \E call \in Calls : Resumed(call)
         /\ awaits' = "none"
         /\ UNCHANGED <<want, armed, broken, at, eof>>

WakeUp == /\ Resumed("nap")
          /\ at' = "app"
          /\ UNCHANGED <<want, armed, broken, eof, awaits>>

\* connecta(), after its yield.
ConnectDone == /\ Resumed("connect")
               /\ armed' = FALSE
               /\ at' = CASE queued.kind \in {"false", "nil"} -> "remove"
                          [] eof /\ queued.kind \notin {"false", "nil"} -> "close"
                          [] OTHER -> "app"
               /\ UNCHANGED <<want, broken, eof, awaits>>

RunStep == /\ \/ Again \/ WakeUp \/ ConnectDone
              \/ (Start \/ EndRun) /\ UNCHANGED awaits
           /\ UNCHANGED <<peerVars, sockVars, readVars, writeVars, input, shake, plain, record, size>>
-----------------------------------------------------------------------------
(* In a call of libtls.                                                     *)

Shaken == shake = Len(Script)
Shaking(flight) == ~ Shaken /\ Script[shake + 1] = flight /\ at # "close"

InCall == loop = "co" /\ at \in Calls

\* What the call is about to do: read a piece, or send one.
Reads == Shaking("in") \/ (Shaken /\ at = "decrypt" /\ plain = << >>)

\* libtls has taken the good-bye of the peer, whose socket may still be open.
Notified == Bye /\ Shaken /\ peerSent = Len(Coming) /\ arrived = << >> /\ input = << >>
Sends == Shaking("out") \/ (Shaken /\ (at = "close" \/ (at = "send" /\ record # << >>)))

Stay == UNCHANGED <<loopVars, at>>
Send(part) == leaving' = Append(leaving, part)

\* A step of the handshake.
ShakeIn == /\ InCall /\ Shaking("in") /\ input # << >>
           /\ input' = Tail(input)
           /\ shake' = shake + 1
           /\ Stay
           /\ UNCHANGED <<sockVars, eof, readVars, writeVars, plain, record, size, awaits>>

ShakeOut == /\ InCall /\ Shaking("out") /\ Room > 0
            /\ Send(<< >>)
            /\ shake' = shake + 1
            /\ Stay
            /\ UNCHANGED <<arrived, eof, readVars, writeVars, input, plain, record, size, awaits>>

KeepWaitingToRead == UNCHANGED want

WaitToWrite == want' = "w"

\* tlscb_read() has nothing, tlscb_write() has no room: the coroutine yields.
WantInput == /\ InCall /\ Reads /\ input = << >> /\ ~ eof /\ ~ Notified
             /\ awaits' = "input"
             /\ Yield(at)
             /\ UNCHANGED <<sockVars, want, eof, readVars, writeVars, input, shake, plain, record, size>>

WantOutput == /\ InCall /\ Sends /\ Room = 0 /\ link = "up"
              /\ awaits' = "output"
              /\ WaitToWrite
              /\ Yield(at)
              /\ UNCHANGED <<sockVars, eof, readVars, writeVars, input, shake, plain, record, size>>

\* _handshake() is done.
HandshakeDone == /\ Does("shake") /\ Shaken
                 /\ Go("app")
                 /\ UNCHANGED <<sockVars, want, eof, readVars, writeVars, tlsVars>>

\* tls_read(): it takes a record apart, and gives what _refill() asked for ...
Decode == /\ Does("decrypt") /\ Shaken /\ plain = << >> /\ input # << >>
          /\ plain' = Head(input) /\ input' = Tail(input)
          /\ Stay
          /\ UNCHANGED <<sockVars, eof, readVars, writeVars, shake, record, size, awaits>>

Least(m, n) == IF m < n THEN m ELSE n

Refilled == /\ Does("decrypt") /\ Shaken /\ plain # << >>
            /\ LET n == Least(BufferSize, Len(plain))
               IN /\ readbuf' = AddToBuffer(Take(plain, n))
                  /\ plain' = Drop(plain, n)
            /\ tried' = TRUE
            /\ Go("read")
            /\ UNCHANGED <<sockVars, want, eof, format, rpos, used, writeVars,
                           input, shake, record, size, awaits>>

\* ... or nothing at the end of the socket or of what the peer has to say.  Then
\* _refill() returns nil, and refill() sets _eof: read("*a") is done.
RefillEnds == /\ Does("decrypt") /\ Shaken /\ plain = << >> /\ input = << >>
              /\ eof \/ Notified
              /\ eof' = TRUE
              /\ IF format.kind = "all"
                 THEN /\ used' = used \o Bytes(readbuf) /\ readbuf' = Nil
                      /\ Go("app")
                      /\ UNCHANGED tried
                 ELSE tried' = TRUE /\ Go("read") /\ UNCHANGED <<used, readbuf>>
              /\ UNCHANGED <<sockVars, want, format, rpos, writeVars, tlsVars>>

\* tls_write() puts as much as it can in a record, which has to be sent whole.
Seal == /\ Does("send") /\ Shaken /\ record = << >>
        /\ LET n == Least(MaxRecord, Len(piece))
           IN record' = << << >>, Take(piece, n) >> /\ size' = n
        /\ Stay
        /\ UNCHANGED <<sockVars, eof, readVars, writeVars, input, shake, plain, awaits>>

SendPiece == /\ Does("send") /\ Shaken /\ Len(record) > 1 /\ Room > 0
             /\ Send(Head(record)) /\ record' = Tail(record)
             /\ Stay
             /\ UNCHANGED <<arrived, eof, readVars, writeVars, input, shake, plain, size, awaits>>

SendLast == /\ Does("send") /\ Shaken /\ Len(record) = 1 /\ Room > 0
            /\ Send(Head(record)) /\ record' = << >> /\ size' = 0
            /\ UNCHANGED <<arrived, eof, readVars, mode, then, written, input, shake, plain>>

\* _drain() is done, or goes on with the rest when there is room.
SendAll == /\ SendLast
           /\ size = Len(piece)
           /\ Drained
           /\ UNCHANGED <<want, awaits>>

SendSome == /\ SendLast
            /\ size < Len(piece)
            /\ piece' = Drop(piece, size)
            /\ awaits' = "output"
            /\ WaitToWrite
            /\ Yield("send")
            /\ UNCHANGED <<writebuf, unit>>

\* tls.ERROR: there is no connection any more, or it ended during the handshake.
Failing == (Reads /\ ~ Shaken /\ input = << >> /\ eof) \/ (Sends /\ link = "down")

CallFails == /\ InCall /\ at # "close" /\ Failing
             /\ IF at = "send" THEN NotDrained ELSE Go("app") /\ UNCHANGED <<piece, unit>>
             /\ size' = 0
             /\ UNCHANGED <<sockVars, want, eof, readVars, writebuf, mode, then, written,
                            input, shake, plain, record, awaits>>

\* close(): libtls says good-bye if it was introduced; an error is no matter.
CloseSocket == /\ Does("close")
               /\ \/ Shaken /\ Room > 0 /\ Send(<< >>)
                  \/ (~ Shaken \/ link = "down") /\ UNCHANGED leaving
               /\ EndSocket
               /\ UNCHANGED <<arrived, eof, readVars, writeVars, tlsVars>>

\* connecta() leaves a socket that did not connect to the collector.
RemoveSocket == /\ Does("remove")
                /\ EndSocket
                /\ UNCHANGED <<sockVars, eof, readVars, writeVars, tlsVars>>

CallStep == \/ ShakeIn \/ ShakeOut \/ WantInput \/ WantOutput \/ HandshakeDone
            \/ Decode \/ Refilled \/ RefillEnds
            \/ Seal \/ SendPiece \/ SendAll \/ SendSome
            \/ CallFails \/ CloseSocket \/ RemoveSocket
-----------------------------------------------------------------------------
(* What else the coroutine does.                                            *)

LookAtBuffer == Look(Go("decrypt"))

\* It asks for the handshake, closes, or sleeps on its timer, and may be woken
\* by the handler before.
Enter == /\ Does("app")
         /\ \/ Go("shake") \/ Go("close")
            \/ armed /\ Yield("nap")
         /\ UNCHANGED <<sockVars, want, eof, readVars, writeVars>>

CoStep == /\ \/ CallStep
             \/ (Ioing \/ LookAtBuffer \/ Enter) /\ UNCHANGED tlsVars
          /\ UNCHANGED peerVars

Environment == Peer /\ UNCHANGED tlsVars

Program == \/ LoopStep /\ UNCHANGED tlsVars
           \/ Handle \/ RunStep \/ CoStep

Next == Environment \/ Program

Spec == Init /\ [][Next]_vars

FairSpec == Spec /\ WF_vars(Program)
-----------------------------------------------------------------------------
Within(pieces) == FlattenSeq(pieces)
Received == used \o Bytes(readbuf) \o plain

\* Every byte the peer sent is in one place, in order, on its way through the
\* socket, __input, libtls and the buffer to the program: whatever timers and
\* hangups break into.
NothingLost ==
  Received \o Within(input \o arrived) = Within(SubSeq(Coming, 1, peerSent))

InOrder == Increasing(Received \o Within(input \o arrived))

\* What the peer got, and what the socket, libtls and the buffer have still to
\* send, is what was written, as long as the connection is up: a record that is
\* tried again is not sent twice, nor one that is cut by a full socket.
AllWritten ==
  link = "up" =>
     Within(peerGot \o leaving \o record) \o Drop(writebuf, unit - Len(piece) + size)
       = Numbers(written)

\* The socket waits for what libtls asked for, reading while it writes and the
\* other way round.
RightEvent ==
  ~ broken /\ queued = Nil /\ loop \notin {"hangup", "read", "write"} =>
     /\ awaits = "input" => want = "r"
     /\ awaits = "output" => want = "w"

\* Whoever waits for libtls to go on is resumed once it can, unless a timer has
\* broken in.
ReadDue == awaits = "input" /\ (arrived # << >> \/ fin \/ link = "down")
WriteDue == awaits = "output" /\ Room > 0
ReadServed == awaits # "input" \/ broken
WriteServed == awaits # "output" \/ broken
Served == (ReadDue ~> ReadServed) /\ (WriteDue ~> WriteServed)

\* lua/net/ios.lua of read(): "data returned per format, nil on error".  When
\* it gives the rest of the buffer for the end of the stream, there is no more.
EndStep == Does("read") /\ eof /\ ~ broken /\ link = "up" /\ at' = "app" =>
             plain \o Within(input) = << >>

EndIsEnd == [][EndStep]_vars
=============================================================================
