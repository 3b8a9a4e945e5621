------------------------------ MODULE Pollsets -------------------------------
(***************************************************************************)
(* The pollset of src/pollset.c as a program has it: one of the four       *)
(* implementations, chosen when the program was built and the same for all *)
(* its life.  They have variables in common; those of the others are still.*)
(*                                                                         *)
(* What is asked of the callers depends on the implementation: only epoll  *)
(* refuses a file that is inserted twice, and select reports a file that   *)
(* is wanted for two events for both.                                      *)
(***************************************************************************)
EXTENDS Integers, Sequences, FiniteSets, Functions

CONSTANTS Fd, Wants, InsertTwice, InsertInEvents,  \* by the name of the implementation
          Obj, NoObj, NoFd, Readiness, OmitObj,    \* see Pollset
          NULL,                                    \* see Epoll and Kqueue
          NoWrite,                                 \* see Kqueue
          SetSize,                                 \* see Select
          Chunk, Rlimit, Junk                      \* see Poll

VARIABLES impl,                  \* the implementation
          kernel,                \* of Epoll
          filters, enabled,      \* of Kqueue
          list,                  \* of Epoll and Kqueue
          set,                   \* of Poll
          interest, selected,    \* of Select
          uservalue, idx, max, count, ready, phase, ret

kqueueVars == <<filters, enabled>>
selectVars == <<interest, selected>>
listVars == <<list, max>>
anyVars == <<impl, kernel, listVars, kqueueVars, set, selectVars,
             uservalue, idx, count, ready, phase, ret>>

E == INSTANCE Epoll WITH Fd <- Fd.epoll, Wants <- Wants.epoll,
       InsertTwice <- InsertTwice.epoll, InsertInEvents <- InsertInEvents.epoll
K == INSTANCE Kqueue WITH Fd <- Fd.kqueue, Wants <- Wants.kqueue,
       InsertTwice <- InsertTwice.kqueue, InsertInEvents <- InsertInEvents.kqueue
A == INSTANCE Poll WITH Fd <- Fd.poll, Wants <- Wants.poll,
       InsertTwice <- InsertTwice.poll, InsertInEvents <- InsertInEvents.poll
L == INSTANCE Select WITH Fd <- Fd.select, Wants <- Wants.select,
       InsertTwice <- InsertTwice.select, InsertInEvents <- InsertInEvents.select

\* Files are inserted once, and can be watched for reading and for writing.
PollsetsAssumption ==
  /\ E!EpollAssumption /\ K!KqueueAssumption /\ A!PollAssumption /\ L!SelectAssumption
  /\ ~ InsertTwice.kqueue /\ ~ InsertTwice.poll /\ ~ InsertTwice.select
  /\ NoWrite = {}

\* select's callers want one event at a time, as those in lua/nfl.lua do.
OneWanted == \A w \in Wants.select : \E e \in {"r", "w"} : w = {e}

\* What is hung up can be read, to the end, and written, for an error.
HungUpIsReady == \A state \in Readiness : "hup" \in state => {"r", "w"} \subseteq state

CallersAssumption == ~ OmitObj /\ OneWanted /\ HungUpIsReady

Implementations == {"epoll", "kqueue", "poll", "select"}

\* What holds of the implementation there is.
Each(epoll, kqueue, poll, select) == /\ impl = "epoll"  => epoll
                                     /\ impl = "kqueue" => kqueue
                                     /\ impl = "poll"   => poll
                                     /\ impl = "select" => select

NoKernel == kernel = << >>
NoFilters == filters = {} /\ enabled = {}
NoList == list = NULL /\ max = 0
NoSet == set = << >>
NoSets == interest = << >> /\ selected = << >>

AnyInit ==
  /\ impl \in Implementations
  /\ Each(E!Init /\ NoFilters /\ NoSet /\ NoSets,
          K!Init /\ NoKernel /\ NoSet /\ NoSets,
          A!Init /\ NoKernel /\ NoList /\ NoFilters /\ NoSets,
          L!Init /\ list = NULL /\ NoKernel /\ NoFilters /\ NoSet)

EpollStep  == impl = "epoll"  /\ E!Next /\ UNCHANGED <<kqueueVars, set, selectVars>>
KqueueStep == impl = "kqueue" /\ K!Next /\ UNCHANGED <<kernel, set, selectVars>>
PollStep   == impl = "poll"   /\ A!Next /\ UNCHANGED <<kernel, listVars, kqueueVars, selectVars>>
SelectStep == impl = "select" /\ L!Next /\ UNCHANGED <<kernel, list, kqueueVars, set>>

AnyNext == /\ EpollStep \/ KqueueStep \/ PollStep \/ SelectStep
           /\ UNCHANGED impl

AnySpec == AnyInit /\ [][AnyNext]_anyVars
-----------------------------------------------------------------------------
AnyTyped == /\ impl \in Implementations
            /\ Each(E!TypeOK, K!TypeOK, A!TypeOK, L!TypeOK)

\* The parts of the set agree on the files there are: see the modules for the
\* parts that each of them has.
Agree == Each(E!Agree, K!Agree, A!Agree, L!Agree)

\* The iterator reads entries that are allocated and filled.
ListValid == Each(E!ListValid, TRUE, TRUE, TRUE)

\* Each implementation does what the comment before them promises: every event
\* is of a registered file, for what it was wanted for and ready for, with the
\* object it was registered with.  With poll a file that a handler inserts, as
\* those of lua/nfl/tcp.lua:153 and lua/nfl/tls.lua:259 do, may have one event
\* that was never found, before the iteration ends.
Promised == Each(E!P!Init, K!P!Init, A!P!Init, L!P!Init)
PromisedStep == Each([E!P!Next]_(E!P!vars), [K!P!Next]_(K!P!vars),
                     [A!P!Next]_(A!P!vars), [L!P!Next]_(L!P!vars))

ImplementsPollset == Promised /\ [][PromisedStep]_anyVars
=============================================================================
