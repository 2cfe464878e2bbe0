------------------------------ MODULE MCSession ------------------------------
(***************************************************************************)
(* Instances of Session for TLC.                                            *)
(***************************************************************************)
EXTENDS SessionProperties, TLC

Symmetric == Permutations(Token) \cup Permutations(Request)
=============================================================================
