---------------------------- MODULE MCMountLink ----------------------------
(* The clients are alike.                                                  *)
EXTENDS MountLink, TLC

Symmetric == Permutations(Clients)
=============================================================================
