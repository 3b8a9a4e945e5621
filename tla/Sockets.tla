------------------------------- MODULE Sockets ------------------------------
(***************************************************************************)
(* The sockets of src/net.c.  A userdata holds the number of a descriptor, *)
(* or -1 once it is closed; the collector closes what the program forgets. *)
(***************************************************************************)
EXTENDS Kernel

CONSTANT Sock

VARIABLE sock     \* sock->fh

SockTypeOK == sock \in [Sock -> Fd \cup {Closed, Absent}]

SockInit == sock = [s \in Sock |-> Absent]

Socket(s) ==
  /\ sock[s] = Absent
  /\ \/ /\ Unused # {}
        /\ open' = open \cup {First}
        /\ sock' = [sock EXCEPT ![s] = First]
        /\ Works
     \/ Fails /\ UNCHANGED <<open, sock>>
  /\ UNCHANGED <<shared, lost, crash>>

\* The objects are there, closed, before the descriptors are.
SocketPair(s, t) ==
  /\ s # t /\ sock[s] = Absent /\ sock[t] = Absent
  /\ \/ /\ Cardinality(Unused) >= 2
        /\ open' = open \cup {First, Second}
        /\ sock' = [sock EXCEPT ![s] = First, ![t] = Second]
        /\ Works
     \/ /\ Fails
        /\ sock' = [sock EXCEPT ![s] = Closed, ![t] = Closed]
        /\ UNCHANGED open
  /\ UNCHANGED <<shared, lost, crash>>

\* accept(); the new object is left to the collector when it fails.
AcceptSock(s, new) ==
  /\ sock[s] # Absent /\ sock[new] = Absent
  /\ \/ /\ sock[s] \in open /\ Unused # {}
        /\ open' = open \cup {First}
        /\ sock' = [sock EXCEPT ![new] = First]
        /\ Works
     \/ Fails /\ sock' = [sock EXCEPT ![new] = Closed] /\ UNCHANGED open
  /\ UNCHANGED <<shared, lost, crash>>

\* bind(), then for a group address two options: each that fails replaces the
\* answer and ends the call, and what was done before it stays done.
Bind(s) ==
  /\ sock[s] # Absent
  /\ \E bound, loops, joins, group \in BOOLEAN :
        /\ bound \/ loops \/ joins => sock[s] \in open
        /\ LET good == bound /\ (group => loops /\ joins)
           IN /\ Tell("any", good, good, IF good THEN 0 ELSE EFAIL)
              /\ errno' = IF good THEN errno ELSE EFAIL
  /\ UNCHANGED <<open, sock, shared, lost, crash>>

\* connect(), listen() and shutdown() answer with errno.
SockCall(s) == /\ sock[s] # Absent
               /\ Checked
               /\ told'.did => sock[s] \in open
               /\ UNCHANGED <<open, sock, shared, lost, crash>>

\* peer(), addr(), recv() and send(), which test what the kernel returns.
Transfer(s) == /\ sock[s] # Absent
               /\ \/ sock[s] \in open /\ Works
                  \/ Fails
               /\ UNCHANGED <<open, sock, shared, lost, crash>>

\* A slip that OneOwner is to catch: the number is kept in the object.
CloseSockKeeps(s) ==
  /\ sock[s] # Absent
  /\ open' = open \ {sock[s]}
  /\ errno' = IF sock[s] \in open THEN 0 ELSE EFAIL
  /\ Tell("any", errno' = 0, errno' = 0, errno')
  /\ UNCHANGED <<sock, shared, lost, crash>>

\* close() and __gc: a socket that has no descriptor is left alone, and the
\* number is forgotten whether the kernel complains or not.
CloseSock(s) ==
  /\ sock[s] # Absent
  /\ IF sock[s] = Closed
     THEN Tell("any", TRUE, TRUE, 0) /\ UNCHANGED <<open, errno, sock>>
     ELSE /\ open' = open \ {sock[s]}
          /\ errno' = IF sock[s] \in open THEN 0 ELSE EFAIL
          /\ Tell("any", errno' = 0, errno' = 0, errno')
          /\ sock' = [sock EXCEPT ![s] = Closed]
  /\ UNCHANGED <<shared, lost, crash>>

CollectSock(s) ==
  /\ sock[s] # Absent
  /\ IF sock[s] = Closed THEN UNCHANGED <<open, errno>>
     ELSE /\ open' = open \ {sock[s]}
          /\ errno' = IF sock[s] \in open THEN 0 ELSE EFAIL
  /\ sock' = [sock EXCEPT ![s] = Absent]
  /\ UNCHANGED <<told, shared, lost, crash>>

\* _dup(): the number it got is pushed on the stack, but _fromfd() looks for it
\* in the first argument, finds the socket and raises an error.
DupSock(s) ==
  /\ sock[s] # Absent
  /\ \/ /\ sock[s] \in open /\ Unused # {}
        /\ open' = open \cup {First}
        /\ lost' = lost \cup {First}
        /\ Tell("dup", TRUE, FALSE, EFAIL)
        /\ UNCHANGED errno
     \/ Fails /\ UNCHANGED <<open, lost>>
  /\ UNCHANGED <<sock, shared, crash>>

\* The program knows a number, from _tofd(), and gives it to another object.
AdoptSock(s, n) ==
  /\ sock[s] = Absent
  /\ sock' = [sock EXCEPT ![s] = n]
  /\ Share(n)
  /\ Works
  /\ UNCHANGED <<open, lost, crash>>

SockNext == \E s \in Sock :
  \/ Socket(s) \/ Bind(s) \/ SockCall(s) \/ Transfer(s)
  \/ CloseSock(s) \/ CollectSock(s) \/ DupSock(s)
  \/ \E t \in Sock : SocketPair(s, t) \/ AcceptSock(s, t)
=============================================================================
