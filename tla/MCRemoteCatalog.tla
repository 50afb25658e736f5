-------------------------- MODULE MCRemoteCatalog ---------------------------
(* Instances of RemoteCatalog for TLC. *)
EXTENDS RemoteCatalog, TLC

Symmetric == Permutations(Clients)
=============================================================================
