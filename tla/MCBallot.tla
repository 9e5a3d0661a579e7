------------------------------ MODULE MCBallot ------------------------------
(* Small instances of Ballot.                                              *)
EXTENDS Ballot

CONSTANTS a1, a2, a3, a4
=============================================================================
