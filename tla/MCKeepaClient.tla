---------------------------- MODULE MCKeepaClient ----------------------------
(***************************************************************************)
(* Small instances of KeepaClient.                                         *)
(***************************************************************************)
EXTENDS KeepaClient, TLC

\* Nothing tells one request from another; sound for the safety properties only.
Symmetry == Permutations(Requests)
=============================================================================
