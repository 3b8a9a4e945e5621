------------------------------- MODULE Children ------------------------------
(***************************************************************************)
(* The children of the process, as src/process.c sees them: fork() and the *)
(* three calls that wait.  What becomes of a child is kept by the kernel   *)
(* until one of the calls takes it; a stop that nobody asked for is        *)
(* forgotten when the child goes on.                                       *)
(***************************************************************************)
EXTENDS Integers, FiniteSets

CONSTANTS Child,     \* process ids
          Nothing    \* Lua's nil

VARIABLES life,    \* "none", "runs", "stopped" or "ended" (and not waited for)
          news,    \* what the kernel has to say of it
          fate,    \* how it ended
          heard,   \* what the program was told of its end
          times,   \* how many times
          answer   \* of the last call

childVars == <<life, news, fate, heard, times>>
vars == <<childVars, answer>>

News(how, rc) == [how |-> how, rc |-> rc]
Ends == {News("exited", 0), News("exited", 1), News("killed", 9), News("dumped", 9)}
Stop == News("stopped", 19)
Continue == News("continued", 18)

ChildrenAssumption == Nothing \notin Ends \cup {Stop, Continue}

Report(pid, status, rc) == [pid |-> pid, status |-> status, rc |-> rc]

Init == /\ life = [c \in Child |-> "none"]
        /\ news = [c \in Child |-> Nothing]
        /\ fate = [c \in Child |-> Nothing]
        /\ heard = [c \in Child |-> Nothing]
        /\ times = [c \in Child |-> 0]
        /\ answer = [err |-> 0, report |-> Nothing]
-----------------------------------------------------------------------------
(* The kernel.                                                             *)

Becomes(c, to, what) == /\ life' = [life EXCEPT ![c] = to]
                        /\ news' = [news EXCEPT ![c] = what]
                        /\ UNCHANGED <<heard, times, answer>>

End(c) == /\ life[c] \in {"runs", "stopped"}
          /\ \E how \in Ends :
                /\ Becomes(c, "ended", how)
                /\ fate' = [fate EXCEPT ![c] = how]

\* SIGSTOP and SIGCONT.
StopChild(c) == life[c] = "runs" /\ Becomes(c, "stopped", Stop) /\ UNCHANGED fate
ContinueChild(c) == life[c] = "stopped" /\ Becomes(c, "runs", Continue) /\ UNCHANGED fate
-----------------------------------------------------------------------------
Fails(err) == /\ answer' = [err |-> err, report |-> Nothing]
              /\ UNCHANGED childVars

fork(c) ==
  /\ life[c] = "none"
  /\ life' = [life EXCEPT ![c] = "runs"]
  /\ fate' = [fate EXCEPT ![c] = Nothing]
  /\ heard' = [heard EXCEPT ![c] = Nothing]
  /\ times' = [times EXCEPT ![c] = 0]
  /\ answer' = [err |-> 0, report |-> Nothing]
  /\ UNCHANGED news

forkFails == Fails("EAGAIN")

\* A slip that TrueAnswer is to catch: a core dump is taken for an exit.
pushstatusDumped(c, what) ==
  CASE what.how \in {"exited", "dumped"} -> Report(c, "normal", what.rc)
    [] what.how = "stopped" -> Report(c, "stopped", what.rc)
    [] what.how = "killed"  -> Report(c, "terminated", what.rc)
    [] OTHER -> Report(c, Nothing, Nothing)

\* proc_pushstatus(): of a child that goes on it says the pid and no more.
proc_pushstatus(c, what) ==
  CASE what.how = "exited"  -> Report(c, "normal", what.rc)
    [] what.how = "stopped" -> Report(c, "stopped", what.rc)
    [] what.how \in {"killed", "dumped"} -> Report(c, "terminated", what.rc)
    [] OTHER -> Report(c, Nothing, Nothing)

\* The table of waitid(), made from siginfo_t.
pushinfo(c, what) ==
  CASE what.how = "exited" -> Report(c, "normal", what.rc)
    [] what.how \in {"killed", "dumped"} -> Report(c, "terminated", what.rc)
    [] OTHER -> Report(c, what.how, what.rc)

\* The kernel hands out what it has of one child, and forgets it.
Take(call, set) == \E c \in set :
  LET report == IF call = "waitid" THEN pushinfo(c, news[c]) ELSE proc_pushstatus(c, news[c])
  IN /\ answer' = [err |-> IF call = "waitusage" THEN Nothing ELSE 0, report |-> report]
     /\ news' = [news EXCEPT ![c] = Nothing]
     /\ life' = [life EXCEPT ![c] = IF @ = "ended" THEN "none" ELSE @]
     /\ IF life[c] = "ended"
        THEN /\ heard' = [heard EXCEPT ![c] = report]
             /\ times' = [times EXCEPT ![c] = @ + 1]
        ELSE UNCHANGED <<heard, times>>
     /\ UNCHANGED fate

\* wait(), waitusage() and waitid().  When there is no news waitid() does not
\* look at what it got: a table for process 0.
Wait(call, of, nohang) ==
  LET there == {c \in of : life[c] # "none"}
      newsy == {c \in there : news[c] # Nothing}
  IN \/ there = {} /\ Fails("ECHILD")
     \/ there # {} /\ newsy = {} /\ ~ nohang /\ Fails("EINTR")
     \/ Take(call, newsy)
     \/ /\ there # {} /\ newsy = {} /\ nohang
        /\ answer' = [err |-> 0, report |-> IF call = "waitid" THEN Report(0, "(0)", 0) ELSE Nothing]
        /\ UNCHANGED childVars

Next == \/ \E c \in Child : fork(c) \/ End(c) \/ StopChild(c) \/ ContinueChild(c)
        \/ forkFails
        \/ \E call \in {"wait", "waitusage", "waitid"}, nohang \in BOOLEAN :
             \E of \in {Child} \cup {{c} : c \in Child} : Wait(call, of, nohang)

Spec == Init /\ [][Next]_vars
-----------------------------------------------------------------------------
TypeOK == /\ life \in [Child -> {"none", "runs", "stopped", "ended"}]
          /\ news \in [Child -> Ends \cup {Stop, Continue, Nothing}]
          /\ fate \in [Child -> Ends \cup {Nothing}]
          /\ \A c \in Child : times[c] \in 0 .. 1

\* The program is told the end of a child once, whichever of the calls it uses
\* and whatever it was told before, and told as it was: a program that failed
\* or was killed is not taken for one that went well.
EndTold == \A c \in Child :
  /\ times[c] = (IF fate[c] # Nothing /\ life[c] = "none" THEN 1 ELSE 0)
  /\ times[c] = 1 => /\ heard[c].rc = fate[c].rc
                     /\ heard[c].status = "normal" <=> fate[c].how = "exited"
                     /\ heard[c].status \in {"normal", "terminated"}
=============================================================================
