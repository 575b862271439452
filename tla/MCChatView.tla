----------------------------- MODULE MCChatView -----------------------------
(***************************************************************************)
(* Small instances of ChatView.                                            *)
(***************************************************************************)
EXTENDS ChatView, TLC
=============================================================================
