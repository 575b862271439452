---------------------------- MODULE MCChatThread ----------------------------
(***************************************************************************)
(* Small instances of ChatThread.                                          *)
(***************************************************************************)
EXTENDS ChatThread, TLC

\* Nothing tells one turn from another; sound for the safety properties only.
Symmetry == Permutations(Turns)
=============================================================================
