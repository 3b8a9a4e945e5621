------------------------------ MODULE MCSignal ------------------------------
(* Signal on a small instance: two signals that can be caught and one that  *)
(* cannot.                                                                  *)
EXTENDS Signal

BothSignals == {{1, 2}}

\* With a handler and a signal to block meanwhile; without a handler, once.
Blocking == [fn |-> TRUE, set |-> {2}, nodefer |-> FALSE, reset |-> FALSE]
Once == [fn |-> FALSE, set |-> {}, nodefer |-> TRUE, reset |-> TRUE]
TwoOptions == {Blocking, Once}
=============================================================================
