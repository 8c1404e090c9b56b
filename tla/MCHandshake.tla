----------------------------- MODULE MCHandshake -----------------------------
(* The two nodes are interchangeable.                                       *)
EXTENDS Handshake, TLC

NodeSymmetry == Permutations({A, B})
=============================================================================
