-------------------------- MODULE MCManagerServer --------------------------
(***************************************************************************)
(* ManagerServer for TLC.                                                  *)
(***************************************************************************)
EXTENDS ManagerServer

(* Clients are interchangeable: no action tells one from another.          *)
Symmetry == Permutations(Client)
=============================================================================
