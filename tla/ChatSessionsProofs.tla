------------------------- MODULE ChatSessionsProofs -------------------------
(***************************************************************************)
(* Theorems about Accounts and ChatSessions for any number of clients,     *)
(* sessions, requests and listings.                                        *)
(*                                                                         *)
(* Accounts: a flushed registration owns its address until it commits or   *)
(* fails (AccountInv), so its commit is the one step in which the          *)
(* Directory sees it.  Sessions: an owner never changes, and whatever      *)
(* carries a message from one place to another has seen that owner         *)
(* (OwnerInv).  Titles: one that is set stays set, and while two writers   *)
(* have not had it open at once, who has read it knows it (KeptInv).       *)
(***************************************************************************)
EXTENDS ChatSessions, TLAPS

USE DEF IndexAdmits, VerifyPassword, Owns, KeyFree

(***************************************************************************)
(* Accounts.                                                               *)
(***************************************************************************)
\* Who is past the flush holds an address that no account and nobody else has.
AccountInv ==
    /\ AccountsTypeOK
    /\ \A u \in users : u = NewUser(u.id)
    /\ OneAccountPerEmail
    /\ NoAccountWithoutToken
    /\ TokensAreEarned
    /\ \A c \in Clients : regpc[c] # "idle" => PasswordOf[c] \in Passwords
    /\ \A c \in Clients : regpc[c] = "issue" => ~ Registered(EmailOf[c])
    /\ \A c, d \in Clients :
          regpc[c] = "issue" /\ regpc[d] = "issue" /\ EmailOf[c] = EmailOf[d] => c = d

LEMMA NewUserFacts ==
  ASSUME NEW c \in Clients, PasswordOf[c] \in Passwords
  PROVE  /\ NewUser(c) \in User
         /\ NewUser(c).id = c /\ NewUser(c).email = EmailOf[c]
         /\ NewUser(c).password = PasswordOf[c]
BY DEF NewUser, User

LEMMA NewTokenFacts ==
  ASSUME NEW c \in Clients, NEW u \in Clients
  PROVE  /\ NewToken(c, u) \in Token
         /\ NewToken(c, u).holder = c /\ NewToken(c, u).user = u
         /\ [NewToken(c, u) EXCEPT !.expired = TRUE] \in Token
         /\ [NewToken(c, u) EXCEPT !.expired = TRUE].holder = c
         /\ [NewToken(c, u) EXCEPT !.expired = TRUE].user = u
BY DEF NewToken, Token

LEMMA AccountsStart == AccountsInit => AccountInv
<1> SUFFICES ASSUME AccountsInit
             PROVE  AccountInv
  OBVIOUS
<1>1. \A v \in Veterans : /\ NewUser(v) \in User /\ NewUser(v).id = v
                          /\ NewUser(v).email = EmailOf[v]
                          /\ NewUser(v).password = PasswordOf[v]
  BY NewUserFacts, AccountsAssumption
<1>2. \A v \in Veterans : LET t == [NewToken(v, v) EXCEPT !.expired = TRUE]
                          IN  t \in Token /\ t.holder = v /\ t.user = v
  BY NewTokenFacts, AccountsAssumption
<1>3. AccountsTypeOK
  BY <1>1, <1>2 DEF AccountsInit, AccountsTypeOK
<1> DEFINE old(v) == [NewToken(v, v) EXCEPT !.expired = TRUE]
<1>4. users = {NewUser(v) : v \in Veterans} /\ tokens = {old(v) : v \in Veterans}
  BY DEF AccountsInit
<1> HIDE DEF old
<1>5. \A u \in users : u = NewUser(u.id)
  BY <1>1, <1>4
<1>6. OneAccountPerEmail
  <2> SUFFICES ASSUME NEW v \in Veterans, NEW w \in Veterans,
                      NewUser(v).email = NewUser(w).email
               PROVE  NewUser(v) = NewUser(w)
    BY <1>4 DEF OneAccountPerEmail
  <2>1. EmailOf[v] = EmailOf[w]
    BY <1>1
  <2> QED
    BY <2>1, AccountsAssumption
<1>7. NoAccountWithoutToken /\ TokensAreEarned
  <2>1. \A v \in Veterans : /\ old(v) \in tokens /\ NewUser(v) \in users
                            /\ old(v).user = NewUser(v).id
                            /\ NewUser(v).email = EmailOf[old(v).holder]
                            /\ NewUser(v).password = PasswordOf[old(v).holder]
    BY <1>1, <1>2, <1>4 DEF old
  <2> QED
    BY <1>4, <2>1 DEF NoAccountWithoutToken, TokensAreEarned
<1> QED
  BY <1>3, <1>5, <1>6, <1>7 DEF AccountsInit, AccountInv

LEMMA AccountsStep == AccountInv /\ [AccountsNext]_accountVars => AccountInv'
<1> SUFFICES ASSUME AccountInv, [AccountsNext]_accountVars
             PROVE  AccountInv'
  OBVIOUS
<1> USE DEF AccountInv, OneAccountPerEmail, NoAccountWithoutToken, TokensAreEarned, Registered
<1>1. CASE UNCHANGED accountVars
  BY <1>1 DEF accountVars, AccountsTypeOK
<1>2. CASE \E c \in Clients : Register(c)
  BY <1>2 DEF Register, AccountsTypeOK
<1>3. CASE \E c \in Clients : FlushUser(c)
  <2>1. PICK c \in Clients : FlushUser(c)
    BY <1>3
  <2>2. /\ users' = users /\ tokens' = tokens
        /\ regpc[c] = "insert"
        /\ \/ regpc' = [regpc EXCEPT ![c] = "idle"]
           \/ /\ regpc' = [regpc EXCEPT ![c] = "issue"]
              /\ ~ Registered(EmailOf[c])
              /\ \A d \in Clients : regpc[d] = "issue" => EmailOf[d] # EmailOf[c]
    BY <2>1 DEF FlushUser
  <2> QED
    BY <2>2 DEF AccountsTypeOK
<1>4. CASE \E c \in Clients : IssueToken(c)
  <2>1. PICK c \in Clients : IssueToken(c)
    BY <1>4
  <2> DEFINE u == NewUser(c)
             t == NewToken(c, c)
  <2>2. /\ u \in User /\ u.id = c /\ u.email = EmailOf[c] /\ u.password = PasswordOf[c]
        /\ t \in Token /\ t.holder = c /\ t.user = c
    BY <2>1, NewUserFacts, NewTokenFacts DEF IssueToken
  <2>3. /\ regpc[c] = "issue" /\ regpc' = [regpc EXCEPT ![c] = "idle"]
        /\ users' = users \cup {u} /\ tokens' = tokens \cup {t}
    BY <2>1 DEF IssueToken
  <2>4. u = NewUser(u.id)
    BY <2>2
  <2> HIDE DEF u, t
  <2>5. AccountsTypeOK'
    BY <2>2, <2>3 DEF AccountsTypeOK
  <2>6. \A v \in users' : v = NewUser(v.id)
    BY <2>3, <2>4
  <2>7. OneAccountPerEmail'
    BY <2>2, <2>3
  <2>8. NoAccountWithoutToken'
    BY <2>2, <2>3
  <2>9. TokensAreEarned'
    BY <2>2, <2>3
  <2>10. \A d \in Clients : regpc'[d] = "issue" => d # c /\ EmailOf[d] # EmailOf[c]
    BY <2>3 DEF AccountsTypeOK
  <2> QED
    BY <2>2, <2>3, <2>5, <2>6, <2>7, <2>8, <2>9, <2>10 DEF AccountsTypeOK
<1>5. CASE \E c \in Clients : Login(c)
  <2>1. PICK c \in Clients, u \in users :
           /\ u.email = EmailOf[c] /\ u.password = PasswordOf[c]
           /\ tokens' = tokens \cup {NewToken(c, u.id)}
           /\ UNCHANGED <<users, regpc>>
    BY <1>5 DEF Login
  <2>2. u.id \in Clients
    BY DEF AccountsTypeOK, User
  <2>3. /\ NewToken(c, u.id) \in Token /\ NewToken(c, u.id).holder = c
        /\ NewToken(c, u.id).user = u.id
    BY <2>2 DEF NewToken, Token
  <2> DEFINE t == NewToken(c, u.id)
  <2>4. t \in Token /\ t.holder = c /\ t.user = u.id /\ tokens' = tokens \cup {t}
    BY <2>1, <2>3
  <2> HIDE DEF t
  <2>5. TokensAreEarned'
    BY <2>1, <2>4
  <2>6. NoAccountWithoutToken'
    BY <2>1, <2>4
  <2>7. AccountsTypeOK'
    BY <2>1, <2>4 DEF AccountsTypeOK
  <2> QED
    BY <2>1, <2>5, <2>6, <2>7
<1>6. CASE \E c \in Clients : RegistrationFails(c)
  BY <1>6 DEF RegistrationFails, AccountsTypeOK
<1>7. CASE \E t \in tokens : Expire(t)
  <2>1. PICK t \in tokens : Expire(t)
    BY <1>7
  <2> DEFINE old == [t EXCEPT !.expired = TRUE]
  <2>2. old \in Token /\ old.holder = t.holder /\ old.user = t.user
    BY DEF AccountsTypeOK, Token
  <2>3. tokens' = (tokens \ {t}) \cup {old} /\ UNCHANGED <<users, regpc>>
    BY <2>1 DEF Expire
  <2> HIDE DEF old
  <2> QED
    BY <2>2, <2>3 DEF AccountsTypeOK
<1> QED
  BY <1>1, <1>2, <1>3, <1>4, <1>5, <1>6, <1>7 DEF AccountsNext

LEMMA AccountsFacts == Spec => []AccountInv
<1>1. Init => AccountInv
  BY AccountsStart DEF Init
<1>2. AccountInv /\ [Next]_sessionVars => AccountInv'
  BY AccountsStep DEF Next, sessionVars, accountVars
<1> QED
  BY <1>1, <1>2, PTL DEF Spec

\* Registrations that race for an address leave one account.
THEOREM UniqueAccounts == Spec => []OneAccountPerEmail
<1>1. AccountInv => OneAccountPerEmail
  BY DEF AccountInv
<1> QED
  BY <1>1, AccountsFacts, PTL

\* Every account that exists has been given a token.
THEOREM NoHalfRegistration == Spec => []NoAccountWithoutToken
<1>1. AccountInv => NoAccountWithoutToken
  BY DEF AccountInv
<1> QED
  BY <1>1, AccountsFacts, PTL

\* Every token's holder typed the address and password of the account it acts for.
THEOREM EarnedTokens == Spec => []TokensAreEarned
<1>1. AccountInv => TokensAreEarned
  BY DEF AccountInv
<1> QED
  BY <1>1, AccountsFacts, PTL

(***************************************************************************)
(* Accounts implements the Directory.                                      *)
(***************************************************************************)
\* The Directory's state, as the tables show it.
ShownAccounts == {[email |-> u.email, password |-> u.password] : u \in users}
ShownActing == [c \in Clients |-> {u.email : u \in UsersByToken(c)}]

\* A client that holds a valid token; there is one account it can be for.
Admitted(c) == \E t \in tokens : t.holder = c /\ ~ t.expired

AdmittedOnly == ShownActing = [c \in Clients |-> IF Admitted(c) THEN {EmailOf[c]} ELSE {}]

LEMMA ActingIsAdmitted == AccountInv => AdmittedOnly
<1> SUFFICES ASSUME AccountInv
             PROVE  AdmittedOnly
  OBVIOUS
<1>1. ASSUME NEW c \in Clients, NEW t \in tokens, t.holder = c, ~ t.expired
      PROVE  {u.email : u \in UsersByToken(c)} = {EmailOf[c]}
  <2>1. \A u \in UsersByToken(c) : u.email = EmailOf[c]
    <3>1. ASSUME NEW u \in users, NEW s \in tokens, s.holder = c, s.user = u.id
          PROVE  u.email = EmailOf[c]
      <4>1. PICK v \in users : v.id = s.user /\ v.email = EmailOf[s.holder]
        BY DEF AccountInv, TokensAreEarned
      <4>2. u = v
        BY <3>1, <4>1 DEF AccountInv
      <4> QED
        BY <3>1, <4>1, <4>2
    <3> QED
      BY <3>1 DEF UsersByToken
  <2>2. \E u \in users : u.id = t.user
    BY DEF AccountInv, TokensAreEarned
  <2>3. UsersByToken(c) # {}
    BY <1>1, <2>2 DEF UsersByToken
  <2> QED
    BY <2>1, <2>3
<1>2. ASSUME NEW c \in Clients, ~ Admitted(c)
      PROVE  {u.email : u \in UsersByToken(c)} = {}
  BY <1>2 DEF Admitted, UsersByToken
<1> QED
  BY <1>1, <1>2 DEF AdmittedOnly, ShownActing, Admitted

LEMMA ActingStaysAdmitted == AccountInv' => AdmittedOnly'
BY ActingIsAdmitted, PTL

\* A token that lets its holder in, as SignUp and SignIn do.
LEMMA TokenAdmits ==
  ASSUME AccountInv, AccountInv', NEW c \in Clients, NEW u \in Clients,
         tokens' = tokens \cup {NewToken(c, u)}
  PROVE  ShownActing' = [ShownActing EXCEPT ![c] = ShownActing[c] \cup {EmailOf[c]}]
<1>1. NewToken(c, u).holder = c /\ ~ NewToken(c, u).expired
  BY DEF NewToken
<1>2. Admitted(c)' /\ \A d \in Clients \ {c} : Admitted(d)' <=> Admitted(d)
  BY <1>1 DEF Admitted
<1>3. AdmittedOnly /\ AdmittedOnly'
  BY ActingIsAdmitted, ActingStaysAdmitted
<1> QED
  BY <1>2, <1>3 DEF AdmittedOnly

\* A step of the accounts is a step of the Directory or does not show.
LEMMA AccountsStepShown ==
  ASSUME AccountInv, AccountInv', AccountsNext
  PROVE  \/ UNCHANGED <<ShownAccounts, ShownActing>>
         \/ \E c \in Clients :
              /\ PasswordOf[c] \in Passwords
              /\ \A a \in ShownAccounts : a.email # EmailOf[c]
              /\ ShownAccounts' = ShownAccounts \cup {Atomic!AccountOf(c)}
              /\ ShownActing' = [ShownActing EXCEPT ![c] = @ \cup {EmailOf[c]}]
         \/ \E c \in Clients :
              /\ Atomic!AccountOf(c) \in ShownAccounts
              /\ ShownActing' = [ShownActing EXCEPT ![c] = @ \cup {EmailOf[c]}]
              /\ UNCHANGED ShownAccounts
         \/ \E c \in Clients : \E email \in ShownActing[c] :
              /\ ShownActing' = [ShownActing EXCEPT ![c] = @ \ {email}]
              /\ UNCHANGED ShownAccounts
<1>1. UNCHANGED <<users, tokens>> => UNCHANGED <<ShownAccounts, ShownActing>>
  BY DEF ShownAccounts, ShownActing, UsersByToken
<1>2. users' = users => ShownAccounts' = ShownAccounts
  BY DEF ShownAccounts
<1>3. ASSUME NEW c \in Clients, Register(c) \/ FlushUser(c) \/ RegistrationFails(c)
      PROVE  UNCHANGED <<users, tokens>>
  BY <1>3 DEF Register, FlushUser, RegistrationFails
<1>4. ASSUME NEW c \in Clients, IssueToken(c)
      PROVE  /\ PasswordOf[c] \in Passwords
             /\ \A a \in ShownAccounts : a.email # EmailOf[c]
             /\ ShownAccounts' = ShownAccounts \cup {Atomic!AccountOf(c)}
             /\ ShownActing' = [ShownActing EXCEPT ![c] = @ \cup {EmailOf[c]}]
  <2>1. /\ regpc[c] = "issue"
        /\ users' = users \cup {NewUser(c)} /\ tokens' = tokens \cup {NewToken(c, c)}
    BY <1>4 DEF IssueToken
  <2>2. PasswordOf[c] \in Passwords /\ ~ Registered(EmailOf[c])
    BY <2>1 DEF AccountInv
  <2>3. \A a \in ShownAccounts : a.email # EmailOf[c]
    BY <2>2 DEF Registered, ShownAccounts
  <2>4. [email |-> NewUser(c).email, password |-> NewUser(c).password] = Atomic!AccountOf(c)
    BY DEF NewUser, Atomic!AccountOf
  <2>5. ShownAccounts' = ShownAccounts \cup {Atomic!AccountOf(c)}
    BY <2>1, <2>4 DEF ShownAccounts
  <2>6. ShownActing' = [ShownActing EXCEPT ![c] = ShownActing[c] \cup {EmailOf[c]}]
    BY <2>1, TokenAdmits
  <2> QED
    BY <2>2, <2>3, <2>5, <2>6
<1>5. ASSUME NEW c \in Clients, Login(c)
      PROVE  /\ Atomic!AccountOf(c) \in ShownAccounts
             /\ ShownActing' = [ShownActing EXCEPT ![c] = @ \cup {EmailOf[c]}]
             /\ users' = users
  <2>1. PICK u \in users : /\ u.email = EmailOf[c] /\ u.password = PasswordOf[c]
                           /\ tokens' = tokens \cup {NewToken(c, u.id)}
                           /\ users' = users
    BY <1>5 DEF Login
  <2>2. u.id \in Clients
    BY DEF AccountInv, AccountsTypeOK, User
  <2>3. ShownActing' = [ShownActing EXCEPT ![c] = ShownActing[c] \cup {EmailOf[c]}]
    BY <2>1, <2>2, TokenAdmits
  <2>4. Atomic!AccountOf(c) \in ShownAccounts
    BY <2>1 DEF ShownAccounts, Atomic!AccountOf
  <2> QED
    BY <2>1, <2>3, <2>4
<1>6. ASSUME NEW t \in tokens, Expire(t)
      PROVE  /\ users' = users
             /\ \/ ShownActing' = ShownActing
                \/ \E c \in Clients : \E email \in ShownActing[c] :
                     ShownActing' = [ShownActing EXCEPT ![c] = @ \ {email}]
  <2> DEFINE old == [t EXCEPT !.expired = TRUE]
             c == t.holder
  <2>1. t \in Token /\ c \in Clients
    BY DEF AccountInv, AccountsTypeOK, Token
  <2>2. old.holder = c /\ old.expired
    BY <2>1 DEF Token
  <2>3. ~ t.expired /\ tokens' = (tokens \ {t}) \cup {old} /\ users' = users
    BY <1>6 DEF Expire
  <2>4. Admitted(c)
    BY <2>3 DEF Admitted
  <2> HIDE DEF old
  <2>5. \A d \in Clients \ {c} : Admitted(d)' <=> Admitted(d)
    BY <2>2, <2>3 DEF Admitted
  <2>6. AdmittedOnly /\ AdmittedOnly'
    BY ActingIsAdmitted, ActingStaysAdmitted
  <2> HIDE DEF c
  <2>7. CASE Admitted(c)'
    BY <2>1, <2>3, <2>4, <2>5, <2>6, <2>7 DEF AdmittedOnly
  <2>8. CASE ~ Admitted(c)'
    <3>1. EmailOf[c] \in ShownActing[c]
      BY <2>1, <2>4, <2>6 DEF AdmittedOnly
    <3>2. ShownActing' = [ShownActing EXCEPT ![c] = ShownActing[c] \ {EmailOf[c]}]
      BY <2>1, <2>4, <2>5, <2>6, <2>8 DEF AdmittedOnly
    <3> QED
      BY <2>1, <2>3, <3>1, <3>2
  <2> QED
    BY <2>7, <2>8
<1> QED
  BY <1>1, <1>2, <1>3, <1>4, <1>5, <1>6 DEF AccountsNext

\* Accounts implements the Directory: registrations and logins happen at once or not
\* at all, and what fails or loses a race does not show.
THEOREM AccountsImplementDirectory == Spec => ImplementsDirectory
<1>1. Init => Atomic!DirectoryInit
  <2> SUFFICES ASSUME Init
               PROVE  Atomic!DirectoryInit
    OBVIOUS
  <2>1. AdmittedOnly
    BY AccountsStart, ActingIsAdmitted DEF Init
  <2>2. \A c \in Clients : ~ Admitted(c)
    BY AccountsAssumption DEF Init, AccountsInit, Admitted, NewToken
  <2>3. ShownActing = [c \in Clients |-> {}]
    BY <2>1, <2>2 DEF AdmittedOnly
  <2>4. ShownAccounts = {Atomic!AccountOf(v) : v \in Veterans}
    <3>1. \A v \in Veterans :
            [email |-> NewUser(v).email, password |-> NewUser(v).password]
               = Atomic!AccountOf(v)
      BY DEF NewUser, Atomic!AccountOf
    <3>2. users = {NewUser(v) : v \in Veterans}
      BY DEF Init, AccountsInit
    <3> QED
      BY <3>1, <3>2 DEF ShownAccounts
  <2> QED
    BY <2>3, <2>4 DEF ShownActing, ShownAccounts, Atomic!DirectoryInit
<1>2. AccountInv /\ AccountInv' /\ [Next]_sessionVars
        => [Atomic!DirectoryNext]_(Atomic!directoryVars)
  <2> SUFFICES ASSUME AccountInv, AccountInv', [Next]_sessionVars
               PROVE  Atomic!DirectoryNext \/ UNCHANGED Atomic!directoryVars
    OBVIOUS
  <2>1. AccountsNext \/ UNCHANGED <<users, tokens>>
    BY DEF Next, sessionVars, accountVars
  <2>2. UNCHANGED <<ShownAccounts, ShownActing>> => UNCHANGED Atomic!directoryVars
    BY DEF ShownAccounts, ShownActing, Atomic!directoryVars
  <2>3. UNCHANGED <<users, tokens>> => UNCHANGED <<ShownAccounts, ShownActing>>
    BY DEF ShownAccounts, ShownActing, UsersByToken
  <2>4. AccountsNext => UNCHANGED <<ShownAccounts, ShownActing>> \/ Atomic!DirectoryNext
    BY AccountsStepShown DEF ShownAccounts, ShownActing, Atomic!DirectoryNext,
       Atomic!SignUp, Atomic!SignIn, Atomic!Lapse
  <2> QED
    BY <2>1, <2>2, <2>3, <2>4
<1> QED
  BY <1>1, <1>2, AccountsFacts, PTL DEF Spec, ImplementsDirectory, Atomic!DirectorySpec

(***************************************************************************)
(* Types of the sessions.                                                  *)
(***************************************************************************)
USE NamesAssumption

\* The actions of ChatNext, as the proofs below split them.
TurnStep(r) ==
    \/ Authenticate(r) \/ ReadRow(r) \/ InsertRow(r) \/ UpdateRow(r) \/ OpenThread(r)
    \/ WriteCheckpoint(r) \/ LogUsage(r) \/ RequestFails(r) \/ OpenHistory(r)
    \/ ShowHistory(r)

ListingStep(l) ==
    \/ SelectSessions(l) \/ CommitTitles(l) \/ ListingFails(l)
    \/ \E s \in Sessions : Backfill(l, s)

LEMMA ChatSteps ==
  ASSUME [Next]_sessionVars
  PROVE  \/ UNCHANGED chatVars
         \/ UNCHANGED accountVars /\ \E r \in Requests : TurnStep(r)
         \/ UNCHANGED accountVars /\ \E l \in Listings : ListingStep(l)
BY DEF Next, ChatNext, sessionVars, TurnStep, ListingStep

\* A token acts for clients only.
LEMMA ActingUsers ==
  ASSUME AccountInv, NEW c
  PROVE  \A u \in UsersByToken(c) : u.id \in Clients
BY DEF AccountInv, AccountsTypeOK, UsersByToken, User

LEMMA RowFacts ==
  /\ NoRow \in Row \cup {NoRow} /\ NoRow.owner = None /\ NoRow.title = None
  /\ \A u \in Clients, m \in Message \cup {None} :
        LET row == [owner |-> u, title |-> m]
        IN  row \in Row /\ row # NoRow /\ row.owner = u /\ row.title = m
  /\ \A row \in Row : row.owner \in Clients /\ row.title \in Message \cup {None} /\ row # NoRow
  /\ \A row \in Row, m \in Message \cup {None} :
        /\ [row EXCEPT !.title = m] \in Row
        /\ [row EXCEPT !.title = m].title = m
        /\ [row EXCEPT !.title = m].owner = row.owner
BY DEF Row, NoRow

LEMMA TitleFacts ==
  /\ \A m \in Message : DeriveTitle(m) \in {m, None}
  /\ \A r \in Requests : \A old : TitleToSet(r, old) \in {r, None}
  /\ Requests \subseteq Message /\ None \notin Message
BY DEF DeriveTitle, TitleToSet, Message

ChatTypeOK ==
    /\ rows \in [Sessions -> Row \cup {NoRow}]
    /\ first \in [Sessions -> Message \cup {None}]
    /\ rpc \in [Requests -> {"new", "in", "insert", "update", "ensured", "graph",
                             "history", "ended"}]
    /\ who \in [Requests \cup Listings -> Clients \cup {None}]
    /\ seen \in [Requests -> Row \cup {NoRow}]
    /\ head \in [Requests -> Message \cup {None}]
    /\ shown \in [Requests -> Message \cup {None}]
    /\ usage \subseteq Requests
    /\ lpc \in [Listings -> {"new", "backfill", "ended"}]
    /\ found \in [Listings -> SUBSET Sessions]
    /\ titles \in [Listings -> [Sessions -> Message \cup {None}]]
    /\ contended \in [Sessions -> BOOLEAN]

\* Besides: only a request or listing that is authenticated goes on, and past its
\* look at a row, the row is its user's.
ChatInv ==
    /\ ChatTypeOK
    /\ \A r \in Requests : rpc[r] \notin {"new", "ended"} => who[r] \in Clients
    /\ \A r \in Requests : rpc[r] = "new" => who[r] = None
    /\ \A r \in Requests : rpc[r] \in {"update", "ensured", "graph", "history"} =>
          rows[SessionOf[r]].owner = who[r]
    /\ \A r \in Requests : rpc[r] = "graph" => head[r] \in Message
    /\ \A l \in Listings : lpc[l] = "new" => who[l] = None
    /\ \A l \in Listings : lpc[l] # "backfill" =>
          found[l] = {} /\ titles[l] = [s \in Sessions |-> None]
    /\ \A l \in Listings, s \in Sessions : s \in found[l] \/ titles[l][s] # None =>
          who[l] \in Clients /\ rows[s].owner = who[l]

LEMMA ChatStart == Init => ChatInv
<1> SUFFICES ASSUME Init
             PROVE  ChatInv
  OBVIOUS
<1>1. rows \in [Sessions -> Row \cup {NoRow}]
  <2>1. PICK old \in SUBSET Sessions, v \in [Sessions -> Veterans \cup {None}] :
           /\ \A s \in old : v[s] # None
           /\ rows = [s \in Sessions |->
                      IF s \in old THEN [owner |-> v[s], title |-> None] ELSE NoRow]
    BY DEF Init, ChatInit
  <2>2. \A s \in old : [owner |-> v[s], title |-> None] \in Row
    BY <2>1, RowFacts, AccountsAssumption
  <2> QED
    BY <2>1, <2>2
<1>2. first \in [Sessions -> Message \cup {None}]
  BY DEF Init, ChatInit, Message
<1> QED
  BY <1>1, <1>2, RowFacts DEF Init, ChatInit, ChatInv, ChatTypeOK

LEMMA ChatStep == AccountInv /\ ChatInv /\ [Next]_sessionVars => ChatInv'
<1> SUFFICES ASSUME AccountInv, ChatInv, [Next]_sessionVars
             PROVE  ChatInv'
  OBVIOUS
<1> USE DEF ChatInv, ChatTypeOK, Contend
<1>1. CASE UNCHANGED chatVars
  BY <1>1 DEF chatVars
<1>2. ASSUME NEW r \in Requests, TurnStep(r)
      PROVE  ChatInv'
  <2>0. SessionOf[r] \in Sessions /\ r \notin Listings
    OBVIOUS
  <2>1. CASE Authenticate(r)
    <3>0. /\ rpc[r] = "new" /\ UNCHANGED <<rows, first, seen, head, shown, usage, lpc,
                                             found, titles, contended>>
          /\ \/ \E v \in UsersByToken(ClientOf[r]) : /\ who' = [who EXCEPT ![r] = v.id]
                                                     /\ rpc' = [rpc EXCEPT ![r] = "in"]
             \/ rpc' = [rpc EXCEPT ![r] = "ended"] /\ who' = who
      BY <2>1 DEF Authenticate
    <3>7. \A v \in UsersByToken(ClientOf[r]) : v.id \in Clients
      BY ActingUsers
    <3>1. PICK u : /\ who' = [who EXCEPT ![r] = u]
                   /\ \/ u \in Clients /\ rpc' = [rpc EXCEPT ![r] = "in"]
                      \/ u = who[r] /\ rpc' = [rpc EXCEPT ![r] = "ended"]
      <4>1. who = [who EXCEPT ![r] = who[r]]
        OBVIOUS
      <4> QED
        BY <3>0, <3>7, <4>1
    <3>2. who' \in [Requests \cup Listings -> Clients \cup {None}]
      BY <3>1
    <3>3. rpc' \in [Requests -> {"new", "in", "insert", "update", "ensured", "graph",
                                "history", "ended"}]
      BY <3>1
    <3>4. \A x \in (Requests \cup Listings) \ {r} : who'[x] = who[x]
      BY <3>1
    <3>5. \A q \in Requests \ {r} : rpc'[q] = rpc[q]
      BY <3>1
    <3>6. rpc'[r] = "ended" \/ (rpc'[r] = "in" /\ who'[r] \in Clients)
      BY <2>0, <3>1
    <3> QED
      BY <2>0, <3>0, <3>2, <3>3, <3>4, <3>5, <3>6
  <2>2. CASE ReadRow(r)
    BY <2>0, <2>2, RowFacts DEF ReadRow
  <2>3. CASE InsertRow(r)
    <3>1. CASE KeyFree(SessionOf[r])
      <4>1. who[r] \in Clients /\ DeriveTitle(r) \in Message \cup {None}
        <5>1. rpc[r] = "insert"
          BY <2>3 DEF InsertRow
        <5>2. r \in Message
          BY TitleFacts
        <5> QED
          BY <5>1, <5>2, TitleFacts
      <4> DEFINE row == [owner |-> who[r], title |-> DeriveTitle(r)]
      <4>2. row \in Row /\ row.owner = who[r]
        BY <4>1, RowFacts
      <4>3. /\ rows[SessionOf[r]].owner = None
            /\ rows' = [rows EXCEPT ![SessionOf[r]] = row]
            /\ rpc' = [rpc EXCEPT ![r] = "ensured"] /\ rpc[r] = "insert"
            /\ UNCHANGED <<first, who, seen, head, shown, usage, lpc, found, titles, contended>>
        BY <2>3, <3>1, RowFacts DEF InsertRow
      <4> HIDE DEF row
      <4> QED
        BY <2>0, <4>2, <4>3
    <3>2. CASE ~ KeyFree(SessionOf[r])
      <4>1. /\ rpc' = [rpc EXCEPT ![r] = "ended"]
            /\ UNCHANGED <<rows, first, who, seen, head, shown, usage, lpc, found, titles,
                           contended>>
        BY <2>3, <3>2 DEF InsertRow
      <4> QED
        BY <2>0, <4>1
    <3> QED
      BY <3>1, <3>2
  <2>4. CASE UpdateRow(r)
    <3> DEFINE s == SessionOf[r]
               title == TitleToSet(r, seen[r].title)
               row == IF title = None THEN rows[s] ELSE [rows[s] EXCEPT !.title = title]
    <3>1. rows[s] \in Row /\ title \in Message \cup {None}
      <4>1. rpc[r] = "update"
        BY <2>4 DEF UpdateRow
      <4>2. rows[s].owner \in Clients
        BY <4>1
      <4>3. title \in {r, None} /\ r \in Message
        BY TitleFacts
      <4> QED
        BY <2>0, <4>2, <4>3, RowFacts
    <3>2. row \in Row /\ row.owner = rows[s].owner
      BY <3>1, RowFacts
    <3>3. /\ rows' = [rows EXCEPT ![s] = row]
          /\ rpc[r] = "update" /\ rpc' = [rpc EXCEPT ![r] = "ensured"]
          /\ UNCHANGED <<first, who, seen, head, shown, usage, lpc, found, titles, contended>>
      BY <2>4 DEF UpdateRow
    <3> HIDE DEF row
    <3> QED
      BY <2>0, <3>2, <3>3
  <2>5. CASE OpenThread(r)
    BY <2>0, <2>5, TitleFacts DEF OpenThread
  <2>6. CASE WriteCheckpoint(r)
    BY <2>0, <2>6 DEF WriteCheckpoint
  <2>7. CASE LogUsage(r)
    BY <2>0, <2>7 DEF LogUsage
  <2>8. CASE RequestFails(r)
    BY <2>0, <2>8 DEF RequestFails
  <2>9. CASE OpenHistory(r)
    BY <2>0, <2>9 DEF OpenHistory
  <2>10. CASE ShowHistory(r)
    BY <2>0, <2>10 DEF ShowHistory
  <2> QED
    BY <1>2, <2>1, <2>2, <2>3, <2>4, <2>5, <2>6, <2>7, <2>8, <2>9, <2>10 DEF TurnStep
<1>3. ASSUME NEW l \in Listings, ListingStep(l)
      PROVE  ChatInv'
  <2>0. l \notin Requests
    OBVIOUS
  <2>1. CASE SelectSessions(l)
    <3> DEFINE untitled(u) == {s \in Sessions : rows[s].owner = u /\ rows[s].title = None}
    <3>0. PICK v \in UsersByToken(ClientOf[l]) : /\ who' = [who EXCEPT ![l] = v.id]
                                                 /\ found' = [found EXCEPT ![l] = untitled(v.id)]
      BY <2>1 DEF SelectSessions
    <3>7. v.id \in Clients
      BY ActingUsers
    <3>1. PICK u \in Clients : /\ who' = [who EXCEPT ![l] = u]
                               /\ found' = [found EXCEPT ![l] = untitled(u)]
      BY <3>0, <3>7
    <3>2. /\ lpc[l] = "new" /\ lpc' = [lpc EXCEPT ![l] = "backfill"]
          /\ contended' \in [Sessions -> BOOLEAN]
          /\ UNCHANGED <<rows, first, rpc, seen, head, shown, usage, titles>>
      BY <2>1 DEF SelectSessions
    <3> QED
      BY <2>0, <3>1, <3>2
  <2>2. CASE \E s \in Sessions : Backfill(l, s)
    BY <2>0, <2>2, TitleFacts DEF Backfill
  <2>3. CASE CommitTitles(l)
    <3>1. \A s \in Sessions : titles[l][s] # None =>
            rows[s] \in Row /\ titles[l][s] \in Message
      BY RowFacts
    <3>2. \A s \in Sessions : rows'[s] \in Row \cup {NoRow} /\ rows'[s].owner = rows[s].owner
      BY <2>3, <3>1, RowFacts DEF CommitTitles
    <3>3. /\ rows' \in [Sessions -> Row \cup {NoRow}]
          /\ titles' = [titles EXCEPT ![l] = [s \in Sessions |-> None]]
          /\ lpc' = [lpc EXCEPT ![l] = "ended"] /\ found[l] = {}
          /\ UNCHANGED <<first, rpc, who, seen, head, shown, usage, found, contended>>
      BY <2>3, <3>2 DEF CommitTitles
    <3> QED
      BY <2>0, <3>2, <3>3
  <2>4. CASE ListingFails(l)
    BY <2>0, <2>4 DEF ListingFails
  <2> QED
    BY <1>3, <2>1, <2>2, <2>3, <2>4 DEF ListingStep
<1> QED
  BY <1>1, <1>2, <1>3, ChatSteps

(***************************************************************************)
(* Owners.                                                                 *)
(***************************************************************************)
\* What no step undoes: an owner, a set title, an authenticated user.
LEMMA WhatStays ==
  ASSUME AccountInv, ChatInv, [Next]_sessionVars
  PROVE  /\ \A s \in Sessions : rows[s].owner \in Clients =>
               /\ rows'[s].owner = rows[s].owner
               /\ rows[s].title # None => rows'[s].title # None
         /\ \A x \in Requests \cup Listings : who[x] \in Clients => who'[x] = who[x]
<1> USE DEF ChatInv, ChatTypeOK
<1>1. CASE UNCHANGED chatVars
  BY <1>1 DEF chatVars
<1>2. ASSUME NEW r \in Requests, TurnStep(r)
      PROVE  /\ \A s \in Sessions : rows[s].owner \in Clients =>
                   /\ rows'[s].owner = rows[s].owner
                   /\ rows[s].title # None => rows'[s].title # None
             /\ \A x \in Requests \cup Listings : who[x] \in Clients => who'[x] = who[x]
  <2>1. CASE Authenticate(r)
    <3>1. /\ rows' = rows /\ rpc[r] = "new"
          /\ who' = who \/ \E v : who' = [who EXCEPT ![r] = v]
      BY <2>1 DEF Authenticate
    <3> QED
      BY <3>1
  <2>2. CASE InsertRow(r)
    <3>1. /\ who' = who
          /\ \/ rows' = rows
             \/ /\ rows[SessionOf[r]] = NoRow
                /\ \E row : rows' = [rows EXCEPT ![SessionOf[r]] = row]
      BY <2>2 DEF InsertRow
    <3>2. rows[SessionOf[r]] = NoRow => rows[SessionOf[r]].owner \notin Clients
      BY RowFacts
    <3>3. \A s \in Sessions : rows'[s] = rows[s] \/ rows[s].owner \notin Clients
      BY <3>1, <3>2
    <3> QED
      BY <3>1, <3>3
  <2>3. CASE UpdateRow(r)
    <3> DEFINE s == SessionOf[r]
               title == TitleToSet(r, seen[r].title)
    <3>1. /\ who' = who
          /\ rows' = IF title = None THEN rows ELSE [rows EXCEPT ![s].title = title]
      BY <2>3 DEF UpdateRow
    <3> HIDE DEF title
    <3>2. \A q \in Sessions : rows[q].owner \in Clients => rows[q] \in Row
      BY RowFacts
    <3> QED
      BY <3>1, <3>2, RowFacts DEF Row
  <2>4. CASE UNCHANGED <<rows, who>>
    BY <2>4
  <2> QED
    BY <1>2, <2>1, <2>2, <2>3, <2>4 DEF TurnStep, ReadRow, OpenThread, WriteCheckpoint,
       LogUsage, RequestFails, OpenHistory, ShowHistory
<1>3. ASSUME NEW l \in Listings, ListingStep(l)
      PROVE  /\ \A s \in Sessions : rows[s].owner \in Clients =>
                   /\ rows'[s].owner = rows[s].owner
                   /\ rows[s].title # None => rows'[s].title # None
             /\ \A x \in Requests \cup Listings : who[x] \in Clients => who'[x] = who[x]
  <2>1. CASE SelectSessions(l)
    <3>1. /\ rows' = rows /\ lpc[l] = "new"
          /\ \E v : who' = [who EXCEPT ![l] = v]
      BY <2>1 DEF SelectSessions
    <3> QED
      BY <3>1
  <2>2. CASE CommitTitles(l)
    <3>1. \A s \in Sessions : rows[s].owner \in Clients => rows[s] \in Row
      BY RowFacts
    <3>2. \A s \in Sessions :
             rows'[s] = IF titles[l][s] = None THEN rows[s]
                        ELSE [rows[s] EXCEPT !.title = titles[l][s]]
      BY <2>2 DEF CommitTitles
    <3>3. who' = who
      BY <2>2 DEF CommitTitles
    <3>4. ASSUME NEW s \in Sessions, rows[s].owner \in Clients
          PROVE  /\ rows'[s].owner = rows[s].owner
                 /\ rows[s].title # None => rows'[s].title # None
      <4>1. rows[s] \in Row /\ titles[l][s] \in Message \cup {None}
        BY <3>1, <3>4
      <4>2. CASE titles[l][s] = None
        BY <3>2, <4>2
      <4>3. CASE titles[l][s] # None
        <5>1. rows'[s] = [rows[s] EXCEPT !.title = titles[l][s]]
          BY <3>2, <4>3
        <5> QED
          BY <4>1, <4>3, <5>1, RowFacts
      <4> QED
        BY <4>2, <4>3
    <3> QED
      BY <3>3, <3>4
  <2>3. CASE UNCHANGED <<rows, who>>
    BY <2>3
  <2> QED
    BY <1>3, <2>1, <2>2, <2>3 DEF ListingStep, ListingFails, Backfill
<1> QED
  BY <1>1, <1>2, <1>3, ChatSteps

\* Where a step takes the title of a session, or a message, from.
TitleOrigin(s) ==
    \/ rows'[s].title \in {rows[s].title, None}
    \/ \E r \in Requests : /\ SessionOf[r] = s /\ who[r] \in Clients
                           /\ rows'[s].owner = who[r] /\ rows'[s].title = r
    \/ \E l \in Listings : titles[l][s] # None /\ rows'[s].title = titles[l][s]

Origins ==
    /\ \A s \in Sessions : TitleOrigin(s)
    /\ \A s \in Sessions :
          \/ first'[s] = first[s]
          \/ \E r \in Requests : SessionOf[r] = s /\ rpc[r] = "graph" /\ first'[s] = head[r]
    /\ \A r \in Requests : r \in usage' => r \in usage \/ rpc[r] = "graph"
    /\ \A r \in Requests : \/ shown'[r] = shown[r]
                           \/ rpc[r] = "history" /\ shown'[r] = first[SessionOf[r]]
    /\ \A r \in Requests : \/ head'[r] = head[r]
                           \/ rpc[r] = "ensured" /\ head'[r] \in {r, first[SessionOf[r]]}
    /\ \A l \in Listings, s \in Sessions : titles'[l][s] \in {titles[l][s], None, first[s]}

LEMMA StepOrigins ==
  ASSUME AccountInv, ChatInv, [Next]_sessionVars
  PROVE  Origins
<1> USE DEF ChatInv, ChatTypeOK, Origins, TitleOrigin
<1>1. CASE UNCHANGED chatVars
  BY <1>1 DEF chatVars
<1>2. ASSUME NEW r \in Requests, TurnStep(r)
      PROVE  Origins
  <2>1. CASE InsertRow(r)
    <3> DEFINE row == [owner |-> who[r], title |-> DeriveTitle(r)]
    <3>1. /\ UNCHANGED <<first, head, shown, usage, titles>>
          /\ rows' = rows \/ (rpc[r] = "insert" /\ rows' = [rows EXCEPT ![SessionOf[r]] = row])
      BY <2>1 DEF InsertRow
    <3>2. row.owner = who[r] /\ row.title \in {r, None}
      BY TitleFacts
    <3> HIDE DEF row
    <3>3. \A s \in Sessions : rows'[s] = rows[s] \/ (/\ s = SessionOf[r] /\ rows'[s] = row
                                                     /\ who[r] \in Clients)
      BY <3>1
    <3> QED
      BY <3>1, <3>2, <3>3
  <2>2. CASE UpdateRow(r)
    <3> DEFINE S == SessionOf[r]
               title == TitleToSet(r, seen[r].title)
    <3>1. /\ UNCHANGED <<first, head, shown, usage, titles>> /\ rpc[r] = "update"
          /\ rows' = IF title = None THEN rows ELSE [rows EXCEPT ![S].title = title]
      BY <2>2 DEF UpdateRow
    <3>2. title \in {r, None}
      BY TitleFacts
    <3> HIDE DEF title
    <3>3. rows[S] \in Row /\ rows[S].owner = who[r] /\ who[r] \in Clients
      <4>1. rows[S].owner = who[r] /\ who[r] \in Clients
        BY <3>1
      <4> QED
        BY <4>1, RowFacts
    <3>4. title # None => /\ rows'[S] = [rows[S] EXCEPT !.title = title]
                          /\ \A s \in Sessions \ {S} : rows'[s] = rows[s]
      BY <3>1
    <3>5. title # None => rows'[S].title = r /\ rows'[S].owner = who[r]
      <4>1. \A m \in Message \cup {None} : /\ [rows[S] EXCEPT !.title = m].title = m
                                           /\ [rows[S] EXCEPT !.title = m].owner = who[r]
        BY <3>3, RowFacts
      <4>2. title \in Message \cup {None}
        BY <3>2, TitleFacts
      <4> QED
        BY <3>2, <3>4, <4>1, <4>2
    <3>6. \A s \in Sessions : TitleOrigin(s)
      BY <3>1, <3>3, <3>4, <3>5
    <3> QED
      BY <3>1, <3>6
  <2>3. CASE Authenticate(r) \/ ReadRow(r) \/ RequestFails(r) \/ OpenHistory(r)
    BY <2>3 DEF Authenticate, ReadRow, RequestFails, OpenHistory
  <2>4. CASE OpenThread(r)
    BY <2>4 DEF OpenThread
  <2>5. CASE WriteCheckpoint(r)
    BY <2>5 DEF WriteCheckpoint
  <2>6. CASE LogUsage(r)
    BY <2>6 DEF LogUsage
  <2>7. CASE ShowHistory(r)
    BY <2>7 DEF ShowHistory
  <2> QED
    BY <1>2, <2>1, <2>2, <2>3, <2>4, <2>5, <2>6, <2>7 DEF TurnStep
<1>3. ASSUME NEW l \in Listings, ListingStep(l)
      PROVE  Origins
  <2>1. CASE SelectSessions(l)
    BY <2>1 DEF SelectSessions
  <2>2. CASE \E s \in Sessions : Backfill(l, s)
    <3>1. PICK q \in Sessions : Backfill(l, q)
      BY <2>2
    <3>2. /\ UNCHANGED <<rows, first, head, shown, usage>>
          /\ \E m \in {None, first[q]} : titles' = [titles EXCEPT ![l][q] = m]
      BY <3>1 DEF Backfill, DeriveTitle
    <3> QED
      BY <3>2
  <2>3. CASE CommitTitles(l)
    <3>1. \A s \in Sessions :
             rows'[s] = IF titles[l][s] = None THEN rows[s]
                        ELSE [rows[s] EXCEPT !.title = titles[l][s]]
      BY <2>3 DEF CommitTitles
    <3>2. \A s \in Sessions : titles[l][s] # None => rows[s] \in Row
      BY RowFacts
    <3>3. \A s \in Sessions : titles[l][s] # None => rows'[s].title = titles[l][s]
      <4> SUFFICES ASSUME NEW s \in Sessions, titles[l][s] # None
                   PROVE  rows'[s].title = titles[l][s]
        OBVIOUS
      <4>1. titles[l][s] \in Message \cup {None}
        OBVIOUS
      <4>2. rows'[s] = [rows[s] EXCEPT !.title = titles[l][s]]
        BY <3>1
      <4> QED
        BY <3>2, <4>1, <4>2, RowFacts
    <3>4. /\ titles' = [titles EXCEPT ![l] = [s \in Sessions |-> None]]
          /\ UNCHANGED <<first, head, shown, usage>>
      BY <2>3 DEF CommitTitles
    <3>5. \A s \in Sessions : TitleOrigin(s)
      BY <3>1, <3>3
    <3>6. \A k \in Listings, s \in Sessions : titles'[k][s] \in {titles[k][s], None}
      BY <3>4
    <3>7. \A k \in Listings, s \in Sessions : titles'[k][s] \in {titles[k][s], None, first[s]}
      BY <3>6
    <3>8. UNCHANGED <<first, head, shown, usage>>
      BY <3>4
    <3> QED
      BY <3>5, <3>7, <3>8 DEF Origins
  <2>4. CASE ListingFails(l)
    BY <2>4 DEF ListingFails
  <2> QED
    BY <1>3, <2>1, <2>2, <2>3, <2>4 DEF ListingStep
<1> QED
  BY <1>1, <1>2, <1>3, ChatSteps

\* The message m, if it is one, is from the conversation user u has in session s.
Safe(m, s, u) == u \in Clients /\ Theirs(m, s, u)

\* Every place a message has got to belongs to the owner of its session.
OwnerInv ==
    /\ \A r \in Requests : r \in usage =>
          who[r] \in Clients /\ rows[SessionOf[r]].owner = who[r]
    /\ \A r \in Requests : shown[r] # None => Safe(shown[r], SessionOf[r], who[r])
    /\ \A r \in Requests : head[r] # None =>
          rows[SessionOf[r]].owner = who[r] /\ Safe(head[r], SessionOf[r], who[r])
    /\ \A s \in Sessions : rows[s].title # None => Safe(rows[s].title, s, rows[s].owner)
    /\ \A s \in Sessions : first[s] # None => Safe(first[s], s, rows[s].owner)
    /\ \A l \in Listings, s \in Sessions : titles[l][s] # None =>
          Safe(titles[l][s], s, rows[s].owner)

LEMMA OwnerStart == Init => OwnerInv
<1> SUFFICES ASSUME Init
             PROVE  OwnerInv
  OBVIOUS
<1>1. \A s \in Sessions : rows[s].title = None
  BY RowFacts DEF Init, ChatInit
<1>2. \A s \in Sessions : first[s] # None => first[s] \notin Requests /\ rows[s].owner \in Clients
  BY AccountsAssumption DEF Init, ChatInit
<1> QED
  BY <1>1, <1>2 DEF Init, ChatInit, OwnerInv, Safe, Theirs

LEMMA OwnerStep ==
  AccountInv /\ ChatInv /\ OwnerInv /\ [Next]_sessionVars => OwnerInv'
<1> SUFFICES ASSUME AccountInv, ChatInv, OwnerInv, [Next]_sessionVars
             PROVE  OwnerInv'
  OBVIOUS
<1>0. \A r \in Requests : SessionOf[r] \in Sessions
  OBVIOUS
<1>1. \A s \in Sessions : rows[s].owner \in Clients => rows'[s].owner = rows[s].owner
  BY WhatStays
<1>2. \A x \in Requests \cup Listings : who[x] \in Clients => who'[x] = who[x]
  BY WhatStays
<1>3. Origins
  BY StepOrigins
<1>4. \A m, s, u : Safe(m, s, u) => u \in Clients /\ (m \in Requests => SessionOf[m] = s /\ who'[m] = u)
  BY <1>2 DEF Safe, Theirs
<1>5. \A r \in Requests : r \in usage' =>
        who'[r] \in Clients /\ rows'[SessionOf[r]].owner = who'[r]
  BY <1>0, <1>1, <1>2, <1>3 DEF Origins, ChatInv, OwnerInv
<1>6. \A s \in Sessions : first'[s] # None =>
        /\ rows'[s].owner \in Clients
        /\ first'[s] \in Requests => SessionOf[first'[s]] = s /\ who'[first'[s]] = rows'[s].owner
  BY <1>0, <1>1, <1>3, <1>4 DEF Origins, OwnerInv
<1>7. \A r \in Requests : shown'[r] # None =>
        /\ who'[r] \in Clients
        /\ shown'[r] \in Requests => /\ SessionOf[shown'[r]] = SessionOf[r]
                                     /\ who'[shown'[r]] = who'[r]
  <2> SUFFICES ASSUME NEW r \in Requests, shown'[r] # None
               PROVE  /\ who'[r] \in Clients
                      /\ shown'[r] \in Requests => /\ SessionOf[shown'[r]] = SessionOf[r]
                                                   /\ who'[shown'[r]] = who'[r]
    OBVIOUS
  <2>1. \/ shown'[r] = shown[r]
        \/ rpc[r] = "history" /\ shown'[r] = first[SessionOf[r]]
    BY <1>3 DEF Origins
  <2>2. Safe(shown'[r], SessionOf[r], who[r])
    BY <1>0, <2>1 DEF OwnerInv, ChatInv
  <2> QED
    BY <1>2, <1>4, <2>2
<1>8. \A r \in Requests : head'[r] # None =>
        /\ who'[r] \in Clients /\ rows'[SessionOf[r]].owner = who'[r]
        /\ head'[r] \in Requests => SessionOf[head'[r]] = SessionOf[r] /\ who'[head'[r]] = who'[r]
  <2> SUFFICES ASSUME NEW r \in Requests, head'[r] # None
               PROVE  /\ who'[r] \in Clients /\ rows'[SessionOf[r]].owner = who'[r]
                      /\ head'[r] \in Requests => /\ SessionOf[head'[r]] = SessionOf[r]
                                                  /\ who'[head'[r]] = who'[r]
    OBVIOUS
  <2>1. \/ head'[r] = head[r]
        \/ rpc[r] = "ensured" /\ head'[r] \in {r, first[SessionOf[r]]}
    BY <1>3 DEF Origins
  <2>2. Safe(head'[r], SessionOf[r], who[r]) /\ rows[SessionOf[r]].owner = who[r]
    BY <1>0, <2>1 DEF OwnerInv, ChatInv, Safe, Theirs
  <2> QED
    BY <1>0, <1>1, <1>2, <1>4, <2>2 DEF Safe
<1>9. \A s \in Sessions : rows'[s].title # None =>
        /\ rows'[s].owner \in Clients
        /\ rows'[s].title \in Requests =>
              SessionOf[rows'[s].title] = s /\ who'[rows'[s].title] = rows'[s].owner
  <2> SUFFICES ASSUME NEW s \in Sessions, rows'[s].title # None
               PROVE  /\ rows'[s].owner \in Clients
                      /\ rows'[s].title \in Requests =>
                            /\ SessionOf[rows'[s].title] = s
                            /\ who'[rows'[s].title] = rows'[s].owner
    OBVIOUS
  <2>1. TitleOrigin(s)
    BY <1>3 DEF Origins
  <2>2. CASE rows'[s].title = rows[s].title
    BY <1>1, <1>4, <2>2 DEF OwnerInv, Safe
  <2>3. CASE \E r \in Requests : /\ SessionOf[r] = s /\ who[r] \in Clients
                                 /\ rows'[s].owner = who[r] /\ rows'[s].title = r
    BY <1>2, <2>3
  <2>4. CASE \E l \in Listings : titles[l][s] # None /\ rows'[s].title = titles[l][s]
    BY <1>1, <1>4, <2>4 DEF OwnerInv, Safe
  <2> QED
    BY <2>1, <2>2, <2>3, <2>4 DEF TitleOrigin
<1>10. \A l \in Listings, s \in Sessions : titles'[l][s] # None =>
        /\ rows'[s].owner \in Clients
        /\ titles'[l][s] \in Requests =>
              SessionOf[titles'[l][s]] = s /\ who'[titles'[l][s]] = rows'[s].owner
  BY <1>1, <1>3, <1>4 DEF Origins, OwnerInv, Safe
<1> QED
  BY <1>5, <1>6, <1>7, <1>8, <1>9, <1>10 DEF OwnerInv, Safe, Theirs

LEMMA ChatFacts == Spec => [](AccountInv /\ ChatInv)
<1>1. Init => ChatInv
  BY ChatStart
<1>2. AccountInv /\ ChatInv /\ [Next]_sessionVars => ChatInv'
  BY ChatStep
<1> QED
  BY <1>1, <1>2, AccountsFacts, PTL DEF Spec

\* Every reachable state of accounts and sessions together is well typed.
THEOREM TypeCorrect == Spec => []TypeOK
<1>1. AccountInv /\ ChatInv => TypeOK
  BY DEF AccountInv, ChatInv, ChatTypeOK, TypeOK
<1> QED
  BY <1>1, ChatFacts, PTL

\* However users compete for a session id, everything in a session is its owner's.
THEOREM SeparateSessions == Spec => []SessionsAreSeparate
<1>1. ChatInv /\ OwnerInv => SessionsAreSeparate
  BY RowFacts DEF ChatInv, OwnerInv, Safe, SessionsAreSeparate
<1>2. Init => OwnerInv
  BY OwnerStart
<1>3. AccountInv /\ ChatInv /\ OwnerInv /\ [Next]_sessionVars => OwnerInv'
  BY OwnerStep
<1> QED
  BY <1>1, <1>2, <1>3, ChatFacts, PTL DEF Spec

(***************************************************************************)
(* Titles.                                                                 *)
(***************************************************************************)
Titled(s) == rows[s].title # None

\* Between reading and writing its row: a step adds one writer at most and marks the
\* session if there was another, and who writes a title is a writer no more.
WriterMove(s) ==
    /\ contended[s] => contended'[s]
    /\ \/ Writers(s)' \subseteq Writers(s)
       \/ /\ rows' = rows
          /\ contended'[s] \/ Writers(s) = {}
          /\ \A x, y \in Writers(s)' \ Writers(s) : x = y
          /\ \A l \in Listings : l \in Writers(s)' \ Writers(s) => rows[s].title = None
    /\ rows'[s] # rows[s] => \E x \in Writers(s) : Writers(s)' \subseteq Writers(s) \ {x}
    /\ \A r \in Requests : SessionOf[r] = s /\ rpc'[r] = "update" =>
          \/ rpc[r] = "update" /\ seen'[r] = seen[r]
          \/ seen'[r] = rows[s] /\ rows' = rows

LEMMA WriterMoves ==
  ASSUME AccountInv, ChatInv, [Next]_sessionVars, NEW s \in Sessions
  PROVE  WriterMove(s)
<1> USE DEF ChatInv, ChatTypeOK, WriterMove
<1>1. CASE UNCHANGED chatVars
  BY <1>1 DEF chatVars, Writers
<1>2. ASSUME NEW r \in Requests, TurnStep(r)
      PROVE  WriterMove(s)
  <2>1. CASE ReadRow(r)
    <3>1. PICK p \in {"insert", "update", "ended"} :
            /\ rpc' = [rpc EXCEPT ![r] = p]
            /\ Contend(IF p = "ended" THEN {} ELSE {SessionOf[r]})
      BY <2>1 DEF ReadRow
    <3>2. /\ seen' = [seen EXCEPT ![r] = rows[SessionOf[r]]] /\ rpc[r] = "in"
          /\ UNCHANGED <<rows, found, titles>>
      BY <2>1 DEF ReadRow
    <3>3. Writers(s)' \subseteq Writers(s) \cup {r}
      BY <3>1, <3>2 DEF Writers
    <3>4. Writers(s)' \subseteq Writers(s) \/ (SessionOf[r] = s /\ p # "ended")
      BY <3>1, <3>2 DEF Writers
    <3>5. /\ contended'[s] = \/ contended[s]
                             \/ /\ s \in (IF p = "ended" THEN {} ELSE {SessionOf[r]})
                                /\ Writers(s) # {}
      BY <3>1 DEF Contend
    <3>6. (SessionOf[r] = s /\ p # "ended") => contended'[s] \/ Writers(s) = {}
      BY <3>5
    <3>7. contended[s] => contended'[s]
      BY <3>5
    <3>8. \A q \in Requests : SessionOf[q] = s /\ rpc'[q] = "update" =>
            \/ rpc[q] = "update" /\ seen'[q] = seen[q]
            \/ seen'[q] = rows[s] /\ rows' = rows
      BY <3>1, <3>2
    <3> QED
      BY <3>2, <3>3, <3>4, <3>6, <3>7, <3>8
  <2>2. CASE InsertRow(r)
    <3>1. /\ UNCHANGED <<seen, found, titles, contended>> /\ rpc[r] = "insert"
          /\ \E p \in {"ensured", "ended"} : rpc' = [rpc EXCEPT ![r] = p]
          /\ \A q \in Sessions \ {SessionOf[r]} : rows'[q] = rows[q]
      BY <2>2 DEF InsertRow
    <3>2. Writers(s)' \subseteq Writers(s) \ {r} /\ (SessionOf[r] = s => r \in Writers(s))
      BY <3>1 DEF Writers
    <3> QED
      BY <3>1, <3>2
  <2>3. CASE UpdateRow(r)
    <3>1. /\ UNCHANGED <<seen, found, titles, contended>> /\ rpc[r] = "update"
          /\ rpc' = [rpc EXCEPT ![r] = "ensured"]
          /\ \A q \in Sessions \ {SessionOf[r]} : rows'[q] = rows[q]
      BY <2>3 DEF UpdateRow
    <3>2. Writers(s)' \subseteq Writers(s) \ {r} /\ (SessionOf[r] = s => r \in Writers(s))
      BY <3>1 DEF Writers
    <3> QED
      BY <3>1, <3>2
  <2>4. CASE /\ UNCHANGED <<rows, seen, found, titles, contended>>
             /\ \E p \in {"in", "ended", "graph", "history"} : rpc' = [rpc EXCEPT ![r] = p]
    <3>1. Writers(s)' \subseteq Writers(s)
      BY <2>4 DEF Writers
    <3> QED
      BY <2>4, <3>1
  <2>5. CASE WriteCheckpoint(r)
    BY <2>5 DEF WriteCheckpoint, Writers
  <2>6. Authenticate(r) => /\ UNCHANGED <<rows, seen, found, titles, contended>>
                           /\ \E p \in {"in", "ended", "graph", "history"} :
                                 rpc' = [rpc EXCEPT ![r] = p]
    BY DEF Authenticate
  <2>7. OpenThread(r) \/ LogUsage(r) \/ RequestFails(r) \/ OpenHistory(r) \/ ShowHistory(r)
          => /\ UNCHANGED <<rows, seen, found, titles, contended>>
             /\ \E p \in {"in", "ended", "graph", "history"} : rpc' = [rpc EXCEPT ![r] = p]
    BY DEF OpenThread, LogUsage, RequestFails, OpenHistory, ShowHistory
  <2> QED
    BY <1>2, <2>1, <2>2, <2>3, <2>4, <2>5, <2>6, <2>7 DEF TurnStep
<1>3. ASSUME NEW l \in Listings, ListingStep(l)
      PROVE  WriterMove(s)
  <2>1. CASE SelectSessions(l)
    <3>1. PICK untitled \in SUBSET Sessions : /\ \A q \in untitled : rows[q].title = None
                                              /\ found' = [found EXCEPT ![l] = untitled]
                                              /\ Contend(untitled)
      BY <2>1 DEF SelectSessions
    <3>2. lpc[l] = "new" /\ UNCHANGED <<rows, rpc, seen, titles>>
      BY <2>1 DEF SelectSessions
    <3>3. Writers(s)' \subseteq Writers(s) \cup {l}
      BY <3>1, <3>2 DEF Writers
    <3>4. Writers(s)' \subseteq Writers(s) \/ s \in untitled
      BY <3>1, <3>2 DEF Writers
    <3>5. contended'[s] = (contended[s] \/ (s \in untitled /\ Writers(s) # {}))
      BY <3>1 DEF Contend
    <3>6. s \in untitled => rows[s].title = None /\ (contended'[s] \/ Writers(s) = {})
      BY <3>1, <3>5
    <3>7. contended[s] => contended'[s]
      BY <3>5
    <3> QED
      BY <3>2, <3>3, <3>4, <3>6, <3>7
  <2>2. CASE \E q \in Sessions : Backfill(l, q)
    <3>1. PICK q \in Sessions : Backfill(l, q)
      BY <2>2
    <3>2. /\ q \in found[l] /\ found' = [found EXCEPT ![l] = found[l] \ {q}]
          /\ \E m : titles' = [titles EXCEPT ![l][q] = m]
          /\ UNCHANGED <<rows, rpc, seen, contended>>
      BY <3>1 DEF Backfill
    <3>3. Writers(s)' \subseteq Writers(s)
      BY <3>2 DEF Writers
    <3> QED
      BY <3>2, <3>3
  <2>3. CASE CommitTitles(l)
    <3>1. /\ rows'[s] # rows[s] => titles[l][s] # None
          /\ found[l] = {} /\ titles' = [titles EXCEPT ![l] = [q \in Sessions |-> None]]
          /\ UNCHANGED <<rpc, seen, found, contended>>
      BY <2>3 DEF CommitTitles
    <3>2. Writers(s)' \subseteq Writers(s) \ {l} /\ (titles[l][s] # None => l \in Writers(s))
      BY <3>1 DEF Writers
    <3> QED
      BY <3>1, <3>2
  <2>4. CASE ListingFails(l)
    <3>1. /\ titles' = [titles EXCEPT ![l] = [q \in Sessions |-> None]]
          /\ found' = [found EXCEPT ![l] = {}]
          /\ UNCHANGED <<rows, rpc, seen, contended>>
      BY <2>4 DEF ListingFails
    <3>2. Writers(s)' \subseteq Writers(s)
      BY <3>1 DEF Writers
    <3> QED
      BY <3>1, <3>2
  <2> QED
    BY <1>3, <2>1, <2>2, <2>3, <2>4 DEF ListingStep
<1> QED
  BY <1>1, <1>2, <1>3, ChatSteps

\* A turn past the row's INSERT or UPDATE has left a title, or has none to give.
TitledInv ==
    /\ \A r \in Requests : rpc[r] = "update" /\ seen[r].title # None => Titled(SessionOf[r])
    /\ \A r \in Requests : rpc[r] \in {"ensured", "graph"} /\ DeriveTitle(r) # None =>
          Titled(SessionOf[r])
    /\ \A r \in Requests : head[r] \in Requests /\ DeriveTitle(head[r]) # None =>
          Titled(SessionOf[r])
    /\ ConversationsHaveTitles

LEMMA TitledStart == Init => TitledInv
BY DEF Init, ChatInit, TitledInv, ConversationsHaveTitles

LEMMA TitledStep ==
  AccountInv /\ ChatInv /\ TitledInv /\ [Next]_sessionVars => TitledInv'
<1> SUFFICES ASSUME AccountInv, ChatInv, TitledInv, [Next]_sessionVars
             PROVE  TitledInv'
  OBVIOUS
<1>0. \A r \in Requests : SessionOf[r] \in Sessions
  OBVIOUS
<1>1. \A s \in Sessions : Titled(s) => Titled(s)'
  <2>1. \A s \in Sessions : Titled(s) => rows[s].owner \in Clients
    BY RowFacts DEF Titled, ChatInv, ChatTypeOK
  <2> QED
    BY <2>1, WhatStays DEF Titled
<1>2. Origins
  BY StepOrigins
\* Who gets to "ensured" has written the row, or had read a title there.
<1>3. ASSUME NEW r \in Requests, rpc'[r] \in {"ensured", "graph"}, DeriveTitle(r) # None
      PROVE  rpc[r] \in {"ensured", "graph"} \/ Titled(SessionOf[r])'
  <2> USE DEF ChatInv, ChatTypeOK
  <2> DEFINE S == SessionOf[r]
  <2>1. CASE InsertRow(r)
    <3>1. \/ rpc'[r] = "ended"
          \/ rows' = [rows EXCEPT ![S] = [owner |-> who[r], title |-> DeriveTitle(r)]]
      BY <2>1 DEF InsertRow
    <3> QED
      BY <1>0, <1>3, <3>1 DEF Titled
  <2>2. CASE UpdateRow(r)
    <3> DEFINE title == TitleToSet(r, seen[r].title)
    <3>1. rpc[r] = "update" /\ (title # None => rows'[S] = [rows[S] EXCEPT !.title = title])
      BY <1>0, <2>2 DEF UpdateRow
    <3>2. CASE seen[r].title # None
      BY <1>0, <1>1, <3>1, <3>2 DEF TitledInv
    <3>3. CASE seen[r].title = None
      <4>1. title = DeriveTitle(r) /\ title \in Message \cup {None}
        BY <3>3, TitleFacts DEF TitleToSet
      <4>2. rows[S].owner \in Clients
        BY <3>1
      <4>3. \A m \in Message \cup {None} : [rows[S] EXCEPT !.title = m].title = m
        BY <1>0, <4>2, RowFacts
      <4> QED
        BY <1>3, <3>1, <4>1, <4>3 DEF Titled
    <3> QED
      BY <3>2, <3>3
  <2>3. CASE rpc'[r] = rpc[r] \/ rpc[r] = "ensured"
    BY <1>3, <2>3
  <2>4. ASSUME NEW q \in Requests, TurnStep(q)
        PROVE  \/ rpc'[r] = rpc[r] \/ rpc[r] = "ensured" \/ InsertRow(r) \/ UpdateRow(r)
    <3>1. CASE q # r
      BY <2>4, <3>1 DEF TurnStep, Authenticate, ReadRow, InsertRow, UpdateRow, OpenThread,
         WriteCheckpoint, LogUsage, RequestFails, OpenHistory, ShowHistory
    <3>2. CASE q = r
      BY <1>3, <2>4, <3>2 DEF TurnStep, Authenticate, ReadRow, OpenThread,
         WriteCheckpoint, LogUsage, RequestFails, OpenHistory, ShowHistory
    <3> QED
      BY <3>1, <3>2
  <2>5. ASSUME NEW l \in Listings, ListingStep(l)
        PROVE  rpc' = rpc
    BY <2>5 DEF ListingStep, SelectSessions, Backfill, CommitTitles, ListingFails
  <2>6. UNCHANGED chatVars => rpc' = rpc
    BY DEF chatVars
  <2> QED
    BY <2>1, <2>2, <2>3, <2>4, <2>5, <2>6, ChatSteps
<1>4. \A r \in Requests : rpc'[r] = "update" /\ seen'[r].title # None => Titled(SessionOf[r])'
  BY <1>0, <1>1, WriterMoves DEF WriterMove, TitledInv, Titled
<1>5. \A r \in Requests : rpc'[r] \in {"ensured", "graph"} /\ DeriveTitle(r) # None =>
        Titled(SessionOf[r])'
  BY <1>0, <1>1, <1>3 DEF TitledInv
<1>6. \A r \in Requests : head'[r] \in Requests /\ DeriveTitle(head'[r]) # None =>
        Titled(SessionOf[r])'
  BY <1>0, <1>1, <1>2 DEF Origins, TitledInv, ConversationsHaveTitles, Titled
<1>7. ConversationsHaveTitles'
  BY <1>0, <1>1, <1>2 DEF Origins, TitledInv, ConversationsHaveTitles, Titled
<1> QED
  BY <1>4, <1>5, <1>6, <1>7 DEF TitledInv

\* A conversation that begins with a text has its title before it has a thread.
THEOREM TitlesFromTheStart == Spec => []ConversationsHaveTitles
<1>1. TitledInv => ConversationsHaveTitles
  BY DEF TitledInv
<1>2. Init => TitledInv
  BY TitledStart
<1>3. AccountInv /\ ChatInv /\ TitledInv /\ [Next]_sessionVars => TitledInv'
  BY TitledStep
<1> QED
  BY <1>1, <1>2, <1>3, ChatFacts, PTL DEF Spec

\* Who is alone with a row knows its title.
KeptInv ==
    \A s \in Sessions : ~ contended[s] =>
        /\ \A x, y \in Writers(s) : x = y
        /\ \A r \in Requests : SessionOf[r] = s /\ rpc[r] = "update" => seen[r].title = rows[s].title
        /\ \A l \in Listings : l \in Writers(s) => rows[s].title = None

LEMMA KeptStart == Init => KeptInv
<1> SUFFICES ASSUME Init
             PROVE  KeptInv
  OBVIOUS
<1>1. \A s \in Sessions : Writers(s) = {}
  BY DEF Init, ChatInit, Writers
<1> QED
  BY <1>1 DEF Init, ChatInit, KeptInv

LEMMA KeptStep ==
  AccountInv /\ ChatInv /\ KeptInv /\ [Next]_sessionVars => KeptInv'
<1> SUFFICES ASSUME AccountInv, ChatInv, KeptInv, [Next]_sessionVars,
                    NEW s \in Sessions, ~ contended'[s]
             PROVE  /\ \A x, y \in Writers(s)' : x = y
                    /\ \A r \in Requests : SessionOf[r] = s /\ rpc'[r] = "update" =>
                          seen'[r].title = rows'[s].title
                    /\ \A l \in Listings : l \in Writers(s)' => rows'[s].title = None
  BY DEF KeptInv
<1>1. WriterMove(s)
  BY WriterMoves
<1>2. \A r \in Requests : SessionOf[r] = s /\ rpc'[r] = "update" => r \in Writers(s)'
  BY DEF Writers
<1>3. ~ contended[s]
  BY <1>1 DEF WriterMove
<1>4. CASE rows'[s] # rows[s]
  <2>1. Writers(s)' = {}
    BY <1>1, <1>3, <1>4 DEF WriterMove, KeptInv
  <2> QED
    BY <1>2, <2>1
<1>5. CASE rows'[s] = rows[s]
  <2>0. /\ \A x, y \in Writers(s) : x = y
        /\ \A l \in Listings : l \in Writers(s) => rows[s].title = None
    BY <1>3 DEF KeptInv
  <2>4. \/ Writers(s)' \subseteq Writers(s)
        \/ /\ Writers(s) = {}
           /\ \A x, y \in Writers(s)' : x = y
           /\ \A l \in Listings : l \in Writers(s)' => rows[s].title = None
    BY <1>1 DEF WriterMove
  <2>1. \A x, y \in Writers(s)' : x = y
    BY <2>0, <2>4
  <2>2. \A r \in Requests : SessionOf[r] = s /\ rpc'[r] = "update" =>
          seen'[r].title = rows'[s].title
    BY <1>1, <1>3, <1>5 DEF WriterMove, KeptInv
  <2>3. \A l \in Listings : l \in Writers(s)' => rows'[s].title = None
    BY <1>5, <2>0, <2>4
  <2> QED
    BY <2>1, <2>2, <2>3
<1> QED
  BY <1>4, <1>5

\* Who writes a title where one was, and is alone, writes the same one.
LEMMA SameTitle ==
  ASSUME AccountInv, ChatInv, KeptInv, [Next]_sessionVars,
         NEW s \in Sessions, rows[s].title # None, ~ contended'[s]
  PROVE  rows'[s].title = rows[s].title
<1> USE DEF ChatInv, ChatTypeOK
<1>1. ~ contended[s]
  BY WriterMoves DEF WriterMove
<1>2. UNCHANGED chatVars => rows' = rows
  BY DEF chatVars
<1>3. ASSUME NEW r \in Requests, TurnStep(r)
      PROVE  rows'[s].title = rows[s].title
  <2>1. CASE InsertRow(r)
    <3>1. rows'[s] = rows[s] \/ rows[s] = NoRow
      BY <2>1 DEF InsertRow
    <3>2. rows[s] # NoRow
      BY RowFacts
    <3> QED
      BY <3>1, <3>2
  <2>2. CASE UpdateRow(r)
    <3>1. SessionOf[r] = s => seen[r].title # None
      <4>1. rpc[r] = "update"
        BY <2>2 DEF UpdateRow
      <4> QED
        BY <1>1, <4>1 DEF KeptInv
    <3>2. SessionOf[r] = s => rows' = rows
      BY <2>2, <3>1 DEF UpdateRow, TitleToSet
    <3>3. SessionOf[r] # s => rows'[s] = rows[s]
      BY <2>2 DEF UpdateRow
    <3> QED
      BY <3>2, <3>3
  <2> QED
    BY <1>3, <2>1, <2>2 DEF TurnStep, Authenticate, ReadRow, OpenThread, WriteCheckpoint,
       LogUsage, RequestFails, OpenHistory, ShowHistory
<1>4. ASSUME NEW l \in Listings, ListingStep(l)
      PROVE  rows'[s].title = rows[s].title
  <2>1. CASE CommitTitles(l)
    <3>1. titles[l][s] # None => l \in Writers(s)
      BY DEF Writers
    <3>2. titles[l][s] = None
      BY <1>1, <3>1 DEF KeptInv
    <3> QED
      BY <2>1, <3>2 DEF CommitTitles
  <2> QED
    BY <1>4, <2>1 DEF ListingStep, SelectSessions, Backfill, ListingFails
<1> QED
  BY <1>2, <1>3, <1>4, ChatSteps

\* A title, once set, is replaced only where two writers had it open at once.
THEOREM TitlesAreKept == Spec => TitleKept
<1>1. Init => KeptInv
  BY KeptStart
<1>2. AccountInv /\ ChatInv /\ KeptInv /\ [Next]_sessionVars => KeptInv'
  BY KeptStep
<1>3. AccountInv /\ ChatInv /\ KeptInv /\ [Next]_sessionVars =>
        [\A s \in Sessions : rows[s].title # None /\ ~ contended'[s] =>
            rows'[s].title = rows[s].title]_sessionVars
  BY SameTitle
<1> QED
  BY <1>1, <1>2, <1>3, ChatFacts, PTL DEF Spec, TitleKept
=============================================================================
