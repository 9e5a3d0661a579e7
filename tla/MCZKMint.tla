------------------------------ MODULE MCZKMint ------------------------------
(* Small instances of ZKMint.                                              *)
EXTENDS ZKMint

CONSTANTS alice, bank
=============================================================================
