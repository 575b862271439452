------------------------------ MODULE Accounts ------------------------------
(***************************************************************************)
(* Registration, login and bearer tokens (app/routers/auth.py, app/auth):  *)
(* clients of the API compete for email addresses and get tokens.  One     *)
(* action is one statement or one commit.  What a registration has         *)
(* flushed and not yet committed is not a variable: it follows from pc.    *)
(***************************************************************************)
EXTENDS FiniteSets

CONSTANTS
    Clients,    \* browsers and scripts; a registration is named by its client
    EmailOf,    \* the address a client types, stripped and in lower case
    PasswordOf, \* the password a client types
    Passwords,  \* the passwords of 8 to 72 bytes
    Veterans    \* clients that registered before the behaviour starts

ASSUME AccountsAssumption ==
    /\ Veterans \subseteq Clients
    /\ \A v \in Veterans : PasswordOf[v] \in Passwords
    /\ \A v, w \in Veterans : EmailOf[v] = EmailOf[w] => v = w

VARIABLES
    users,      \* users, committed
    tokens,     \* auth_tokens, committed: rows are never deleted
    regpc       \* where each client is in POST /register

accountVars == <<users, tokens, regpc>>

User == [id : Clients, email : {EmailOf[c] : c \in Clients}, password : Passwords]

\* holder: the client that was given the token, whose hash the row stores.
Token == [holder : Clients, user : Clients, expired : BOOLEAN]

NewUser(c) == [id |-> c, email |-> EmailOf[c], password |-> PasswordOf[c]]
NewToken(c, u) == [holder |-> c, user |-> u, expired |-> FALSE]

AccountsInit ==
    /\ users = {NewUser(c) : c \in Veterans}
    /\ tokens = {[NewToken(c, c) EXCEPT !.expired = TRUE] : c \in Veterans}
    /\ regpc = [c \in Clients |-> "idle"]

Registered(email) == \E u \in users : u.email = email

\* The length check, then the SELECT: an address that is taken gets the 409 here.
Register(c) ==
    /\ regpc[c] = "idle"
    /\ PasswordOf[c] \in Passwords
    /\ ~ Registered(EmailOf[c])
    /\ regpc' = [regpc EXCEPT ![c] = "insert"]
    /\ UNCHANGED <<users, tokens>>

\* Faulty variant: no unique index on lower(email).
NoIndex(c) == TRUE

\* ix_users_email_lower_unique: an INSERT waits for an open one of the same address.
IndexAdmits(c) ==
    \A d \in Clients : regpc[d] = "issue" => EmailOf[d] # EmailOf[c]

\* db.flush(): the INSERT, which nobody sees before the commit, or the IntegrityError
\* that ends in the same 409.
FlushUser(c) ==
    /\ regpc[c] = "insert"
    /\ IndexAdmits(c)
    /\ regpc' = [regpc EXCEPT ![c] = IF Registered(EmailOf[c]) THEN "idle" ELSE "issue"]
    /\ UNCHANGED <<users, tokens>>

\* _issue_token: one commit for the user and the token.
IssueToken(c) ==
    /\ regpc[c] = "issue"
    /\ users' = users \cup {NewUser(c)}
    /\ tokens' = tokens \cup {NewToken(c, c)}
    /\ regpc' = [regpc EXCEPT ![c] = "idle"]

\* Faulty variant: any password will do.
AnyPassword(password, stored) == TRUE
VerifyPassword(password, stored) == password = stored

\* POST /login.  Bound: a client that holds a valid token does not ask for another.
Login(c) ==
    /\ regpc[c] = "idle"
    /\ \A t \in tokens : t.holder = c => t.expired
    /\ \E u \in users :
         /\ u.email = EmailOf[c]
         /\ VerifyPassword(PasswordOf[c], u.password)
         /\ tokens' = tokens \cup {NewToken(c, u.id)}
    /\ UNCHANGED <<users, regpc>>

\* The process dies or the connection breaks: an open transaction rolls back.
RegistrationFails(c) ==
    /\ regpc[c] # "idle"
    /\ regpc' = [regpc EXCEPT ![c] = "idle"]
    /\ UNCHANGED <<users, tokens>>

\* TOKEN_TTL_HOURS have passed.  Nothing in the code sets revoked_at.
Expire(t) ==
    /\ ~ t.expired
    /\ tokens' = (tokens \ {t}) \cup {[t EXCEPT !.expired = TRUE]}
    /\ UNCHANGED <<users, regpc>>

\* get_user_by_token: the users a request of this client can act for.
UsersByToken(c) ==
    {u \in users : \E t \in tokens : t.holder = c /\ t.user = u.id /\ ~ t.expired}

AccountsNext ==
    \/ \E c \in Clients :
         \/ Register(c)
         \/ FlushUser(c)
         \/ IssueToken(c)
         \/ Login(c)
         \/ RegistrationFails(c)
    \/ \E t \in tokens : Expire(t)

-----------------------------------------------------------------------------
\* Every variable stays in its type.
AccountsTypeOK ==
    /\ users \subseteq User
    /\ tokens \subseteq Token
    /\ regpc \in [Clients -> {"idle", "insert", "issue"}]

\* Two registrations of one address that both pass the SELECT leave one account:
\* what the unique index on lower(email) is for (routers/auth.py's "Race" comment).
OneAccountPerEmail == \A u, v \in users : u.email = v.email => u = v

\* Nobody registers halfway: an account that exists has been given a token, so the
\* address is never taken by a registration that was answered with an error.
NoAccountWithoutToken == \A u \in users : \E t \in tokens : t.user = u.id

\* A token acts for an account only if its holder typed that account's address and
\* password, however registrations and logins interleave.
TokensAreEarned ==
    \A t \in tokens : \E u \in users :
        u.id = t.user /\ u.email = EmailOf[t.holder] /\ u.password = PasswordOf[t.holder]

\* Read through what is committed and whom a token lets act, the statements and
\* transactions of routers/auth.py are the Directory: a registration that loses its
\* race, fails or is cut off before its commit does not show.
Atomic == INSTANCE Directory WITH
              accounts <- {[email |-> u.email, password |-> u.password] : u \in users},
              acting <- [c \in Clients |-> {u.email : u \in UsersByToken(c)}]
ImplementsDirectory == Atomic!DirectorySpec
=============================================================================
