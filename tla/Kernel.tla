------------------------------- MODULE Kernel -------------------------------
(***************************************************************************)
(* What the bindings of src/net.c and src/fsys.c see of the kernel: the    *)
(* table of open descriptors, in which a new one gets the lowest number    *)
(* that is free, and errno, which a call that succeeds leaves alone.       *)
(* What the program was told of its last call is kept beside what happened.*)
(***************************************************************************)
EXTENDS Integers, FiniteSets

CONSTANTS Fd,       \* bound: the descriptors the process may have
          MaxShared \* bound: numbers with more than one object at a time

KernelAssumption == IsFiniteSet(Fd) /\ Fd \subseteq Nat /\ MaxShared \in Nat

VARIABLES open,    \* the descriptors that are open
          errno,   \* 0 or EFAIL, which stands for every error
          shared,  \* numbers that more than one object was given, or a raw call
          lost,    \* descriptors that the program can no longer reach
          told,    \* the last call: did it happen, and what does the program hear
          crash    \* whether a call went through a pointer to nothing

kernelVars == <<open, errno, shared, lost, told, crash>>

EFAIL == 1
Absent == -2      \* there is no such object (yet, or it was collected)
Closed == -1      \* the object has no descriptor

KernelTypeOK == /\ open \subseteq Fd
                /\ errno \in {0, EFAIL}
                /\ shared \subseteq Fd
                /\ lost \subseteq Fd
                /\ told \in [call : {"any", "fclose", "fsync", "_lock", "_close", "dup"}, did : BOOLEAN, okay : BOOLEAN, err : {0, EFAIL}]
                /\ crash \in BOOLEAN

KernelInit == /\ open = {}
              /\ errno \in {0, EFAIL}
              /\ shared = {}
              /\ lost = {}
              /\ told = [call |-> "any", did |-> TRUE, okay |-> TRUE, err |-> 0]
              /\ crash = FALSE

Unused == Fd \ open
Lowest(set) == CHOOSE n \in set : \A m \in set : n <= m

\* The number of the next descriptor, and of the one after it.
First == Lowest(Unused)
Second == Lowest(Unused \ {First})

\* A number is given to a second object.
Share(n) == /\ Cardinality(shared \cup {n}) <= MaxShared
            /\ shared' = shared \cup {n}

Tell(call, did, okay, err) ==
  told' = [call |-> call, did |-> did, okay |-> okay, err |-> err]

\* A call that sets errno when it fails, and returns it or 0.
Fails == errno' = EFAIL /\ Tell("any", FALSE, FALSE, EFAIL)
Works == UNCHANGED errno /\ Tell("any", TRUE, TRUE, 0)

\* A call whose result is errno, reset before: net.c's connect(), listen(),
\* shutdown() and close(), and most of fsys.c.
Checked == \E did \in BOOLEAN :
  /\ errno' = IF did THEN 0 ELSE EFAIL
  /\ Tell("any", did, errno' = 0, errno')

Crash == crash' = TRUE
=============================================================================
