----------------------------- MODULE MCRollupNC -----------------------------
(* Small instances of RollupNC.                                            *)
EXTENDS RollupNC

CONSTANTS r1, r2
=============================================================================
