--------------------------------- MODULE MCFr ---------------------------------
(* Two variables over a small field; numbers of either sign beyond q.       *)
EXTENDS Fr

CONSTANTS x, y
MCNumbers == {-12, -1, 0, 2, 4, 9, 13}
=============================================================================
