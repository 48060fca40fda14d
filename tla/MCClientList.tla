---------------------------- MODULE MCClientList ----------------------------
(* Model-checking instance of ClientList.                                  *)
EXTENDS ClientList, TLC

(* Connections are interchangeable (sound for safety only).                *)
ClientSymmetry == Permutations(Clients)
=============================================================================
