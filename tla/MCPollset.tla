----------------------------- MODULE MCPollset ------------------------------
(* Each of the four implementations with two or three files and two handlers. *)
EXTENDS Pollsets, TLC

CONSTANTS f1, f2, f3, h1, h2

\* A third file is one too many for poll's array, and a descriptor too large
\* for select's sets.
Files == [epoll |-> {f1, f2}, kqueue |-> {f1, f2}, poll |-> {f1, f2, f3}, select |-> {0, 3, 9}]

\* lua/nfl.lua's modules ask for one event at a time.
ReadOrWrite == {{"r"}, {"w"}}
AnyWant == {{"r"}, {"w"}, {"r", "w"}}
Wanted == [epoll |-> AnyWant, kqueue |-> AnyWant, poll |-> ReadOrWrite, select |-> ReadOrWrite]

\* A file that is hung up can be read (the end) and written (an error).
States == {{}, {"r"}, {"w"}, {"r", "w", "hup"}}

Found == {{"r", "hup"}}

\* Whoever may, does.
Twice == [epoll |-> TRUE, kqueue |-> FALSE, poll |-> FALSE, select |-> FALSE]
Inside == [epoll |-> TRUE, kqueue |-> TRUE, poll |-> TRUE, select |-> TRUE]

ASSUME Assumptions == PollsetsAssumption /\ CallersAssumption

\* The handlers are interchangeable, and so are the descriptors but select's.
Symmetry == Permutations({h1, h2}) \cup Permutations({f1, f2, f3})
=============================================================================
