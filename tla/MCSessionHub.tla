----------------------------- MODULE MCSessionHub -----------------------------
(* Instances of SessionHub for TLC. *)
EXTENDS SessionHub

SocketSymmetry == Permutations(Socket)
=============================================================================
