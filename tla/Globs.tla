-------------------------------- MODULE Globs --------------------------------
(***************************************************************************)
(* expand() and gexpand() of src/fsys.c: the names that match a pattern,   *)
(* as a list or one after the other.  glob() allocates what globfree()     *)
(* gives back; the iterator does so at the end, or the collector, or the   *)
(* end of the loop (Lua 5.4).                                              *)
(***************************************************************************)
EXTENDS Integers, Sequences

CONSTANTS Iterator,
          MaxMatches,  \* bound: names that match
          MaxList      \* bound: names in the list that expand() adds to

GlobsAssumption == MaxMatches \in Nat /\ MaxList \in Nat

VARIABLES data,   \* struct myexpand, Gone before and after
          globbed,   \* the iterators whose names are allocated
          list,   \* of expand(): a number stands for each name
          astray

vars == <<data, globbed, list, astray>>

Gone == [idx |-> 0, pathc |-> 0, gc |-> FALSE, there |-> FALSE]
Opened(n, freed) == [idx |-> 0, pathc |-> n, gc |-> freed, there |-> TRUE]

Init == /\ data = [g \in Iterator |-> Gone]
        /\ globbed = {} /\ list = << >> /\ astray = FALSE

\* globfree() of what is free already does nothing.
globfree(g) == globbed' = globbed \ {g}

\* A new list, or one that is there and gets longer; nothing stays allocated.
Expand(found, old) ==
  /\ Len(old) + found <= MaxList
  /\ list' = old \o [k \in 1 .. found |-> k]
  /\ UNCHANGED <<data, globbed, astray>>

\* When glob() fails there is nothing to free, and nothing to give.
Gexpand(g) ==
  /\ ~ data[g].there
  /\ \/ /\ \E n \in 1 .. MaxMatches : data' = [data EXCEPT ![g] = Opened(n, FALSE)]
        /\ globbed' = globbed \cup {g}
     \/ /\ data' = [data EXCEPT ![g] = Opened(0, TRUE)]
        /\ UNCHANGED globbed
  /\ UNCHANGED <<list, astray>>

\* expand_meta_next(): gl_pathc outlives the names.
GlobNext(g) ==
  /\ data[g].there
  /\ IF data[g].idx < data[g].pathc
     THEN /\ data' = [data EXCEPT ![g].idx = @ + 1]
          /\ astray' = (g \notin globbed)
          /\ UNCHANGED globbed
     ELSE /\ globfree(g)
          /\ data' = [data EXCEPT ![g].gc = TRUE]
          /\ UNCHANGED astray
  /\ UNCHANGED list

\* expand_meta___gc(), as __close; the program may have kept the iterator.
Close(g) == /\ data[g].there
            /\ IF data[g].gc THEN UNCHANGED globbed ELSE globfree(g)
            /\ data' = [data EXCEPT ![g].gc = TRUE]
            /\ UNCHANGED <<list, astray>>

Collect(g) == /\ data[g].there
              /\ IF data[g].gc THEN UNCHANGED globbed ELSE globfree(g)
              /\ data' = [data EXCEPT ![g] = Gone]
              /\ UNCHANGED <<list, astray>>

Step(g) == Gexpand(g) \/ GlobNext(g) \/ Close(g) \/ Collect(g)

Next == /\ ~ astray
        /\ \/ \E g \in Iterator : Step(g)
           \/ \E found \in 1 .. MaxMatches : Expand(found, << >>) \/ Expand(found, list)

Spec == Init /\ [][Next]_vars
-----------------------------------------------------------------------------
TypeOK == /\ \A g \in Iterator : data[g].idx \in 0 .. data[g].pathc
          /\ globbed \subseteq Iterator

\* The names are given back, at the end or before it, and not while the
\* iterator has some to give.  The exception is an iterator that was closed
\* before its end and is asked again.
NamesFreed ==
  /\ \A g \in Iterator : g \in globbed <=> data[g].there /\ ~ data[g].gc
  /\ astray => \E g \in Iterator : data[g].gc /\ data[g].idx <= data[g].pathc /\ data[g].idx > 0
=============================================================================
