-------------------------------- MODULE Exec ---------------------------------
(***************************************************************************)
(* exec() of src/process.c: the arguments and the environment of the new   *)
(* program are put together in memory of the C library, which has to be    *)
(* given back whenever the old program goes on.  envp grows by Chunk       *)
(* pointers at a time.                                                     *)
(***************************************************************************)
EXTENDS Integers

CONSTANTS Chunk,   \* 64 in the code
          MaxEnv,  \* bound: variables in the environment
          Nothing

ExecAssumption == /\ Chunk \in Nat \ {0} /\ MaxEnv \in Nat
                  /\ Nothing \notin {"ENOMEM", "raised", "errno"}

VARIABLES pc,     \* "out", "env", "end", "exec" or "gone"
          given,  \* how the third argument came: "none", "table" or "other"
          left,   \* keys that lua_next() has not given yet
          alloc,  \* what is allocated: argv, envp and the strings in it
          envc, envm,
          top,    \* the highest place of envp that was written
          over,   \* a string was longer than what was allocated for it
          odd,    \* what was odd about a key or a value
          ret     \* what exec() returned

vars == <<pc, given, left, alloc, envc, envm, top, over, odd, ret>>

Free == [blocks |-> {}, strings |-> 0]

Init == /\ pc = "out" /\ given = "none" /\ left = 0 /\ alloc = Free
        /\ envc = 0 /\ envm = 0 /\ top = -1 /\ over = FALSE /\ odd = "nothing"
        /\ ret = Nothing

Return(e) == pc' = "out" /\ ret' = e

\* proc_execfree(): envc strings, the array and argv.
execfree == alloc' = [blocks |-> {}, strings |-> alloc.strings - envc]

\* malloc() of argv; the arguments point into Lua's strings.
Start ==
  /\ pc = "out" /\ alloc = Free /\ ret = Nothing
  /\ \/ Return("ENOMEM") /\ UNCHANGED <<given, left, alloc>>
     \/ /\ given' \in {"none", "table", "other"}
        /\ left' \in IF given' = "table" THEN 0 .. MaxEnv ELSE {0}
        /\ alloc' = [blocks |-> {"argv"}, strings |-> 0]
        /\ pc' = CASE given' = "none"  -> "exec"
                   [] given' = "table" -> "env"
                   [] OTHER -> "end"
        /\ UNCHANGED ret
  /\ UNCHANGED <<envc, envm, top, over, odd>>

\* A third argument that is no table is an error, raised when argv is free.
NoTable == /\ pc = "end" /\ given = "other"
           /\ alloc' = Free
           /\ Return("raised")
           /\ UNCHANGED <<given, left, envc, envm, top, over, odd>>

\* A slip that TypesOK is to catch: it grows when it is too late.
RoomLate == IF envc > envm THEN envm + Chunk ELSE envm

\* What proc_growenvp() leaves, when it succeeds.
Room == IF envc = envm THEN envm + Chunk ELSE envm

\* It fails, or malloc() does after it.
NoMemory == /\ pc = "env"
            /\ \/ envc = envm /\ UNCHANGED envm
               \/ left > 0 /\ envm' = Room
            /\ execfree
            /\ Return("ENOMEM")
            /\ UNCHANGED <<given, left, envc, top, over, odd>>

PutEntry == /\ envm' = Room
            /\ top' = envc
            /\ envc' = envc + 1
            /\ alloc' = [blocks |-> {"argv", "envp"}, strings |-> alloc.strings + 1]

\* "name=value" is printed into a block of both lengths and three; what is no
\* string has the length 0 and is printed as "(null)".  A number that is a key
\* becomes a string, which the next lua_next() does not find.
Entry(kind) ==
  /\ pc = "env" /\ left > 0
  /\ PutEntry
  /\ left' = left - 1
  /\ over' = (over \/ kind = "no string")
  /\ odd' = IF kind = "string" THEN odd ELSE kind
  /\ IF kind = "number key" THEN Return("raised") ELSE UNCHANGED <<pc, ret>>
  /\ UNCHANGED given

\* The NULL at the end, for which there may have to be more room; free() of it
\* does nothing.
LastEntry == /\ pc = "env" /\ left = 0
             /\ PutEntry
             /\ pc' = "exec"
             /\ UNCHANGED <<given, left, over, odd, ret>>

\* execve() comes back only when it fails.
Execve == /\ pc = "exec"
          /\ \/ pc' = "gone" /\ UNCHANGED <<alloc, ret>>
             \/ /\ IF given = "none" THEN UNCHANGED alloc ELSE execfree
                /\ Return("errno")
          /\ UNCHANGED <<given, left, envc, envm, top, over, odd>>

Next == \/ Start \/ NoTable \/ NoMemory \/ LastEntry \/ Execve
        \/ \E kind \in {"string", "no string", "number key"} : Entry(kind)

Spec == Init /\ [][Next]_vars
-----------------------------------------------------------------------------
TypeOK == /\ pc \in {"out", "env", "end", "exec", "gone"}
          /\ alloc \in [blocks : SUBSET {"argv", "envp"}, strings : 0 .. MaxEnv + 1]
          /\ envc \in 0 .. MaxEnv + 1 /\ envm \in Nat /\ top \in -1 .. MaxEnv

\* envp is written within what was allocated, and its last pointer is NULL when
\* the kernel gets it; a string fits its block unless it was none.
EnvpFits == /\ top < envm \/ top = -1
            /\ over => odd # "nothing"

\* Wherever the memory runs out, what was taken is given back.  The exceptions:
\* argv when the environment is the old one (src/process.c:318), and everything
\* when lua_tolstring() turns a number that lua_next() needs into a string.
ExecClean == pc = "out" =>
  alloc = CASE given = "none" /\ ret = "errno" -> [blocks |-> {"argv"}, strings |-> 0]
           [] odd = "number key" /\ ret = "raised" -> alloc
           [] OTHER -> Free
=============================================================================
