-------------------------------- MODULE MCNfl --------------------------------
(* The event loop on a small instance.                                      *)
EXTENDS Nfl

CONSTANTS c1, c2

\* Nobody calls schedule(), or one of two coroutines does for the other and,
\* however often it is run, for itself.
NoKicks == {}
Selfish == {<<c1, c1>>, <<c1, c2>>}
=============================================================================
