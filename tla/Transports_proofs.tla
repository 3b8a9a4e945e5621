-------------------------- MODULE Transports_proofs --------------------------
(***************************************************************************)
(* What Tcp_proofs and Tls_proofs say of one connection holds of whichever *)
(* of the three connections of Transports there is.                        *)
(***************************************************************************)
EXTENDS Transports, TLAPS

\* The inductive invariant is that of the connection there is.
IInv == which \in {"reader", "writer", "tls"} /\ Each(R!IInv, W!IInv, T!IInv)

LEMMA InitIInv == Init => IInv
<1> USE Assumptions
<1>1. CASE which = "reader" /\ R!Init
  BY <1>1, R!InitIInv DEF IInv, Each
<1>2. CASE which = "writer" /\ W!Init
  BY <1>2, W!InitIInv DEF IInv, Each
<1>3. CASE which = "tls" /\ T!Init
  BY <1>3, T!InitIInv DEF IInv, Each
<1> QED
  BY <1>1, <1>2, <1>3 DEF Init

\* A step of all is one of the connection there is, or leaves that alone.
LEMMA StepOfOne ==
  ASSUME [Next]_vars
  PROVE  /\ which' = which
         /\ which = "reader" => [R!Next]_(R!vars)
         /\ which = "writer" => [W!Next]_(W!vars)
         /\ which = "tls" => [T!Next]_(T!vars)
<1>1. CASE Next
  BY <1>1 DEF Next, Step
<1>2. CASE UNCHANGED vars
  <2>1. UNCHANGED <<which, T!vars, tcpVars>>
    BY <1>2 DEF vars
  <2>2. UNCHANGED R!vars /\ UNCHANGED W!vars
    BY <2>1 DEF tcpVars, R!lostVars, W!lostVars, R!vars, W!vars, T!vars, R!connVars, W!connVars, T!connVars, T!tlsVars,
       R!peerVars, R!sockVars, R!loopVars, R!readVars, R!writeVars,
       W!peerVars, W!sockVars, W!loopVars, W!readVars, W!writeVars,
       T!peerVars, T!sockVars, T!loopVars, T!readVars, T!writeVars
  <2> QED
    BY <2>1, <2>2
<1> QED
  BY <1>1, <1>2

LEMMA NextIInv == IInv /\ [Next]_vars => IInv'
<1> SUFFICES ASSUME IInv, [Next]_vars PROVE IInv'
  OBVIOUS
<1> USE Assumptions
<1>1. CASE which = "reader"
  <2>1. R!IInv /\ [R!Next]_(R!vars) /\ which' = which
    BY <1>1, StepOfOne DEF IInv, Each
  <2>2. R!IInv'
    BY <2>1, R!NextIInv
  <2> QED
    BY <1>1, <2>1, <2>2 DEF IInv, Each
<1>2. CASE which = "writer"
  <2>1. W!IInv /\ [W!Next]_(W!vars) /\ which' = which
    BY <1>2, StepOfOne DEF IInv, Each
  <2>2. W!IInv'
    BY <2>1, W!NextIInv
  <2> QED
    BY <1>2, <2>1, <2>2 DEF IInv, Each
<1>3. CASE which = "tls"
  <2>1. T!IInv /\ [T!Next]_(T!vars) /\ which' = which
    BY <1>3, StepOfOne DEF IInv, Each
  <2>2. T!IInv'
    BY <2>1, T!NextIInv
  <2> QED
    BY <1>3, <2>1, <2>2 DEF IInv, Each
<1> QED
  BY <1>1, <1>2, <1>3 DEF IInv

LEMMA Inductive == Spec => []IInv
BY InitIInv, NextIInv, PTL DEF Spec

LEMMA Gives == IInv => TypeOK /\ NothingLost /\ InOrder /\ AllWritten /\ RightEvent
<1> USE Assumptions
<1>1. R!IInv => R!TypeOK /\ R!NothingLost /\ R!InOrder /\ R!AllWritten /\ R!RightEvent
  BY R!Gives
<1>2. W!IInv => W!TypeOK /\ W!NothingLost /\ W!InOrder /\ W!AllWritten /\ W!RightEvent
  BY W!Gives
<1>3. T!IInv => T!TypeOK /\ T!NothingLost /\ T!InOrder /\ T!AllWritten /\ T!RightEvent
  BY T!Gives
<1> QED
  BY <1>1, <1>2, <1>3 DEF IInv, Each, TypeOK, NothingLost, InOrder, AllWritten, RightEvent

LEMMA LineStepHolds == IInv /\ [Next]_vars => [LineStep]_vars
<1> SUFFICES ASSUME IInv, [Next]_vars PROVE LineStep
  OBVIOUS
<1> USE Assumptions
<1>1. which = "reader" => R!LineStep
  BY StepOfOne, R!LineStepHolds DEF IInv, Each, R!IInv
<1>2. which = "writer" => W!LineStep
  BY StepOfOne, W!LineStepHolds DEF IInv, Each, W!IInv
<1>3. which = "tls" => T!LineStep
  BY StepOfOne, T!LineStepHolds DEF IInv, Each, T!IInv
<1> QED
  BY <1>1, <1>2, <1>3 DEF LineStep, Each
-----------------------------------------------------------------------------
\* The variables of a connection of lua/nfl/tcp.lua or lua/nfl/tls.lua, and of
\* lua/net/ios.lua over it, stay within their types.
THEOREM TransportTypes == Spec => []TypeOK
BY Inductive, Gives, PTL

\* Of what a peer sent, nothing is lost over TLS between the socket and the program;
\* over TCP no more than what came in while the coroutine slept, or in a call after
\* a timer had broken into one.
THEOREM TransportKeeps == Spec => []NothingLost
BY Inductive, Gives, PTL

\* ... nor is any of it there twice or out of order, even then.
THEOREM TransportOrders == Spec => []InOrder
BY Inductive, Gives, PTL

\* What is written over a connection that is up gets to the peer once, however
\* often _drain() has to wait for room, and tls_write() is tried again.
THEOREM TransportSends == Spec => []AllWritten
BY Inductive, Gives, PTL

\* A coroutine that yielded waits for the event that lets it go on.
THEOREM TransportWaits == Spec => []RightEvent
BY Inductive, Gives, PTL

\* read("*l") gives no line with a line end inside, whichever packets or records
\* the lines came in.
THEOREM TransportLines == Spec => LineWhole
BY Inductive, LineStepHolds, PTL DEF Spec, LineWhole

=============================================================================
