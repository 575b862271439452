--------------------------- MODULE MCChatSessions ---------------------------
(***************************************************************************)
(* A small instance of ChatSessions: a newcomer and a rival who type the   *)
(* same address with different passwords, and a veteran, who may have a    *)
(* session from before titles were stored.                                 *)
(***************************************************************************)
EXTENDS ChatSessions, TLC

CONSTANTS newcomer, rival, veteran,  \* clients
          m1, m2, m3, list,          \* requests and a listing
          s1, s2

MCEmailOf == [c \in Clients |-> IF c = veteran THEN "b@x" ELSE "a@x"]
MCPasswordOf == [c \in Clients |-> IF c = rival THEN "password2" ELSE "password1"]
MCPasswords == {"password1", "password2"}
MCVeterans == {veteran}
MCClientOf == (m1 :> newcomer) @@ (m2 :> veteran) @@ (m3 :> newcomer) @@ (list :> veteran)
MCSessionOf == [r \in Requests |-> s1]
=============================================================================
