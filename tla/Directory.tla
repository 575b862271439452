----------------------------- MODULE Directory -----------------------------
(***************************************************************************)
(* What registration and login promise to the clients of the API, without  *)
(* the statements, the open transactions and the races behind them:        *)
(*   - a registration happens at once or not at all: it takes an address   *)
(*     nobody has and lets the client in by the same step;                 *)
(*   - an account, once there, keeps its password for good;                *)
(*   - a client acts for the account whose address and password it typed,  *)
(*     until its tokens run out.                                           *)
(* Module Accounts implements this specification.                          *)
(***************************************************************************)
CONSTANTS
    Clients,    \* browsers and scripts
    EmailOf,    \* the address a client types
    PasswordOf, \* the password a client types
    Passwords,  \* the passwords that are long enough
    Veterans    \* clients that have an account from the start

VARIABLES
    accounts,   \* the accounts, each an address and a password
    acting      \* [Clients -> addresses]: the accounts a client can act for

directoryVars == <<accounts, acting>>

AccountOf(c) == [email |-> EmailOf[c], password |-> PasswordOf[c]]

DirectoryInit ==
    /\ accounts = {AccountOf(v) : v \in Veterans}
    /\ acting = [c \in Clients |-> {}]

\* Take an address that is free.
SignUp(c) ==
    /\ PasswordOf[c] \in Passwords
    /\ \A a \in accounts : a.email # EmailOf[c]
    /\ accounts' = accounts \cup {AccountOf(c)}
    /\ acting' = [acting EXCEPT ![c] = @ \cup {EmailOf[c]}]

SignIn(c) ==
    /\ AccountOf(c) \in accounts
    /\ acting' = [acting EXCEPT ![c] = @ \cup {EmailOf[c]}]
    /\ UNCHANGED accounts

\* The last token of a client for the account of this address has run out.
Lapse(c, email) ==
    /\ acting' = [acting EXCEPT ![c] = @ \ {email}]
    /\ UNCHANGED accounts

DirectoryNext ==
    \E c \in Clients :
        \/ SignUp(c)
        \/ SignIn(c)
        \/ \E email \in acting[c] : Lapse(c, email)

DirectorySpec == DirectoryInit /\ [][DirectoryNext]_directoryVars
=============================================================================
