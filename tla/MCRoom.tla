------------------------------- MODULE MCRoom -------------------------------
(* Model-checking instances of Room.                                       *)
EXTENDS Room, TLC

(* Connections are interchangeable (used for safety runs only).            *)
ClientSymmetry == Permutations(Clients)
=============================================================================
