------------------------------- MODULE Syslog --------------------------------
(***************************************************************************)
(* src/syslog.c.  openlog() of the C library keeps the pointer it is given *)
(* and not the text, so that open() keeps the Lua string in the registry.  *)
(* Where the library cannot write to stderr as well, log() does it.        *)
(***************************************************************************)
EXTENDS FiniteSets

CONSTANTS Ident,    \* strings; one that is collected may come back
          Nothing

VARIABLES perrors,   \* the library has LOG_PERROR
          tag, opts, \* what the library has
          kept,      \* the registry: the string, and
          perror,    \*   "org.conman.syslog:perror"
          strings,   \* Lua's strings that are alive
          holds,     \* those of them that the program has
          logged,    \* what the last line was, or Nothing
          due        \* what the program asked for

libVars == <<tag, opts>>
luaVars == <<kept, perror>>
vars == <<perrors, libVars, luaVars, strings, holds, logged, due>>

Flags == {"pid", "perror"}
Fresh == [tag |-> Nothing, opts |-> {}]

Init == /\ perrors \in BOOLEAN
        /\ tag = Nothing /\ opts = {} /\ kept = Nothing /\ perror = FALSE
        /\ strings = {} /\ holds = {}
        /\ logged = Nothing /\ due = Fresh

\* The program makes a string, forgets one, and the collector takes one.
MakeString(s) == /\ strings' = strings \cup {s} /\ holds' = holds \cup {s}
                 /\ UNCHANGED <<perrors, libVars, luaVars, logged, due>>
Forget(s) == /\ holds' = holds \ {s}
             /\ UNCHANGED <<perrors, libVars, luaVars, strings, logged, due>>
CollectString(s) == /\ s \in strings \ (holds \cup {kept})
                    /\ strings' = strings \ {s}
                    /\ UNCHANGED <<perrors, libVars, luaVars, holds, logged, due>>

\* The flag that the library has not goes to the registry, where it stays when
\* the next open() does not have it, or when this one fails behind it.
NotePerror(flags) == perror' = (perror \/ (~ perrors /\ "perror" \in flags))

Open(s, flags) ==
  /\ s \in holds
  /\ kept' = s /\ NotePerror(flags)
  /\ tag' = s /\ opts' = IF perrors THEN flags ELSE flags \ {"perror"}
  /\ due' = [tag |-> s, opts |-> flags]
  /\ UNCHANGED <<perrors, strings, holds, logged>>

\* A facility that there is not, or an option that is no string: an error.
OpenRaises(flags) == /\ NotePerror(flags)
                     /\ UNCHANGED <<perrors, libVars, kept, strings, holds, logged, due>>

CloseLog == /\ tag' = Nothing /\ opts' = {}
            /\ kept' = Nothing /\ perror' = FALSE
            /\ due' = Fresh
            /\ UNCHANGED <<perrors, strings, holds, logged>>

\* log(), and the module called as a function: a line, with the name of the
\* program if there is no other.
Log == /\ logged' = [tag |-> tag, opts |-> IF perror THEN opts \cup {"perror"} ELSE opts]
       /\ UNCHANGED <<perrors, libVars, luaVars, strings, holds, due>>

Next == \/ \E s \in Ident : \/ MakeString(s) \/ Forget(s) \/ CollectString(s)
                            \/ \E flags \in SUBSET Flags : Open(s, flags)
        \/ \E flags \in SUBSET Flags : OpenRaises(flags)
        \/ CloseLog \/ Log

Spec == Init /\ [][Next]_vars
-----------------------------------------------------------------------------
TypeOK == /\ tag \in Ident \cup {Nothing} /\ kept \in Ident \cup {Nothing}
          /\ opts \in SUBSET Flags /\ strings \subseteq Ident /\ holds \subseteq strings

\* The library never points to a string that was collected.
TagAlive == tag # Nothing => tag \in strings

\* A line is written as the last open() asked for it; but on a system without
\* LOG_PERROR lines go to stderr until close() once they did.
AsOpened == [tag |-> tag, opts |-> IF perror THEN opts \cup {"perror"} ELSE opts]
              \in {due} \cup (IF perrors THEN {} ELSE {[due EXCEPT !.opts = @ \cup {"perror"}]})
=============================================================================
