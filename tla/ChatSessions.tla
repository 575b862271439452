---------------------------- MODULE ChatSessions ----------------------------
(***************************************************************************)
(* The chat_sessions table, the thread behind each session and the chat    *)
(* requests of app/routers/chat.py, composed with the accounts they        *)
(* authenticate against: turns of POST /chat and WS /chat/stream, the      *)
(* session list, and the replay of one session.  A session_id is chosen by *)
(* the client, so anybody can name any session.                            *)
(*                                                                         *)
(* A thread is reduced to its first user message, which the list takes a   *)
(* title from; ChatThread has the rest.  A row's updated_at is left out.   *)
(***************************************************************************)
EXTENDS Accounts

CONSTANTS
    Sessions,   \* session ids
    Requests,   \* turns and replays; a turn's message is named by its request
    ClientOf,   \* the client that sends a request
    SessionOf,  \* the session it names
    Blank,      \* requests whose message is only white space
    Listings,   \* GET /chat/sessions requests; ClientOf covers them too
    Legacy,     \* the first message of a conversation older than the titles
    None        \* NULL

ASSUME NamesAssumption ==
    /\ Legacy \notin Requests
    /\ None \notin Requests \cup {Legacy} \cup Clients
    /\ Blank \subseteq Requests
    /\ Requests \cap Listings = {}
    /\ ClientOf \in [Requests \cup Listings -> Clients]
    /\ SessionOf \in [Requests -> Sessions]

VARIABLES
    rows,       \* chat_sessions, committed
    first,      \* the first HumanMessage of each thread's latest checkpoint
    rpc,        \* where each request is
    who,        \* user of a request or listing, once authenticated
    seen,       \* the row db.get returned to a request
    head,       \* the first message of a running turn's own copy of the thread
    shown,      \* the first message of the history a replay returned
    usage,      \* the turns that have an llm_usage_log row
    lpc,        \* where each listing is
    found,      \* the untitled sessions a listing selected and has still to look up
    titles,     \* the titles it found for them
    contended   \* history: the title of this session was open to two writers at once

chatVars == <<rows, first, rpc, who, seen, head, shown, usage, lpc, found, titles, contended>>
sessionVars == <<accountVars, chatVars>>

Message == Requests \cup {Legacy}
Row == [owner : Clients, title : Message \cup {None}]
NoRow == [owner |-> None, title |-> None]

\* A veteran may have a session from before titles were stored.
ChatInit ==
    /\ \E old \in SUBSET Sessions, v \in [Sessions -> Veterans \cup {None}] :
         /\ \A s \in old : v[s] # None
         /\ rows = [s \in Sessions |->
                      IF s \in old THEN [owner |-> v[s], title |-> None] ELSE NoRow]
         /\ first = [s \in Sessions |-> IF s \in old THEN Legacy ELSE None]
    /\ rpc = [r \in Requests |-> "new"]
    /\ who = [r \in Requests \cup Listings |-> None]
    /\ seen = [r \in Requests |-> NoRow]
    /\ head = [r \in Requests |-> None]
    /\ shown = [r \in Requests |-> None]
    /\ usage = {}
    /\ lpc = [l \in Listings |-> "new"]
    /\ found = [l \in Listings |-> {}]
    /\ titles = [l \in Listings |-> [s \in Sessions |-> None]]
    /\ contended = [s \in Sessions |-> FALSE]

\* Faulty variant: white space makes an empty title.
EmptyTitle(m) == IF m \in Blank THEN "" ELSE m

\* _derive_title: white space alone gives no title.
DeriveTitle(m) == IF m \in Blank THEN None ELSE m

\* The requests between reading the row of s and writing it.
Writers(s) ==
    {r \in Requests : SessionOf[r] = s /\ rpc[r] \in {"insert", "update"}}
        \cup {l \in Listings : s \in found[l] \/ titles[l][s] # None}

Contend(S) == contended' = [s \in Sessions |-> contended[s] \/ (s \in S /\ Writers(s) # {})]

(***************************************************************************)
(* One turn, or one replay.                                                *)
(***************************************************************************)
\* get_current_user, and the handshake of the socket: a valid token or a 401.
Authenticate(r) ==
    /\ rpc[r] = "new"
    /\ LET U == UsersByToken(ClientOf[r])
       IN  \/ \E u \in U : who' = [who EXCEPT ![r] = u.id] /\ rpc' = [rpc EXCEPT ![r] = "in"]
           \/ U = {} /\ rpc' = [rpc EXCEPT ![r] = "ended"] /\ UNCHANGED who
    /\ UNCHANGED <<rows, first, seen, head, shown, usage, lpc, found, titles, contended>>

Owns(row, u) == row.owner = u

\* ensure_session_ownership as far as db.get: no row, another user's (403), or ours.
ReadRow(r) ==
    /\ rpc[r] = "in"
    /\ LET row == rows[SessionOf[r]]
           next == IF row = NoRow THEN "insert"
                   ELSE IF Owns(row, who[r]) THEN "update" ELSE "ended"
       IN  /\ rpc' = [rpc EXCEPT ![r] = next]
           /\ seen' = [seen EXCEPT ![r] = row]
           /\ Contend(IF next = "ended" THEN {} ELSE {SessionOf[r]})
    /\ UNCHANGED <<rows, first, who, head, shown, usage, lpc, found, titles>>

\* Faulty variant: a row that has appeared meanwhile is no error.
MergeRow(s) == TRUE
KeyFree(s) == rows[s] = NoRow

\* The INSERT and its commit; the second of two fails on the primary key, which
\* nothing catches: a 500, or the end of the socket.
InsertRow(r) ==
    LET s == SessionOf[r] IN
    /\ rpc[r] = "insert"
    /\ IF KeyFree(s)
       THEN /\ rows' = [rows EXCEPT ![s] = [owner |-> who[r], title |-> DeriveTitle(r)]]
            /\ rpc' = [rpc EXCEPT ![r] = "ensured"]
       ELSE /\ rpc' = [rpc EXCEPT ![r] = "ended"]
            /\ UNCHANGED rows
    /\ UNCHANGED <<first, who, seen, head, shown, usage, lpc, found, titles, contended>>

\* Faulty variants: the latest message is the title; only the first turn sets it.
LatestTitle(r, old) == DeriveTitle(r)
FirstTurnOnly(r, old) == None

\* The title the UPDATE writes, None when it leaves the column alone.
TitleToSet(r, old) == IF old = None THEN DeriveTitle(r) ELSE None

UpdateRow(r) ==
    LET s == SessionOf[r]
        title == TitleToSet(r, seen[r].title)
    IN  /\ rpc[r] = "update"
        /\ rows' = IF title = None THEN rows ELSE [rows EXCEPT ![s].title = title]
        /\ rpc' = [rpc EXCEPT ![r] = "ensured"]
        /\ UNCHANGED <<first, who, seen, head, shown, usage, lpc, found, titles, contended>>

\* graph.ainvoke loads the thread; nothing is written yet.
OpenThread(r) ==
    LET f == first[SessionOf[r]] IN
    /\ rpc[r] = "ensured"
    /\ head' = [head EXCEPT ![r] = IF f = None THEN r ELSE f]
    /\ rpc' = [rpc EXCEPT ![r] = "graph"]
    /\ UNCHANGED <<rows, first, who, seen, shown, usage, lpc, found, titles, contended>>

\* Any checkpoint of the run: its copy becomes the thread.
WriteCheckpoint(r) ==
    /\ rpc[r] = "graph"
    /\ first' = [first EXCEPT ![SessionOf[r]] = head[r]]
    /\ UNCHANGED <<rows, rpc, who, seen, head, shown, usage, lpc, found, titles, contended>>

\* The graph returns (or raises: the socket logs that too), and log_usage commits.
LogUsage(r) ==
    /\ rpc[r] = "graph"
    /\ usage' = usage \cup {r}
    /\ rpc' = [rpc EXCEPT ![r] = "ended"]
    /\ UNCHANGED <<rows, first, who, seen, head, shown, lpc, found, titles, contended>>

\* The client goes away, the graph raises under POST /chat, the process dies.
RequestFails(r) ==
    /\ rpc[r] \notin {"new", "ended"}
    /\ rpc' = [rpc EXCEPT ![r] = "ended"]
    /\ UNCHANGED <<rows, first, who, seen, head, shown, usage, lpc, found, titles, contended>>

\* get_chat_session_messages: the row is read, and then the checkpoint.
OpenHistory(r) ==
    /\ rpc[r] = "in"
    /\ rows[SessionOf[r]].owner = who[r]      \* no row: []; another owner: 403
    /\ rpc' = [rpc EXCEPT ![r] = "history"]
    /\ UNCHANGED <<rows, first, who, seen, head, shown, usage, lpc, found, titles, contended>>

ShowHistory(r) ==
    /\ rpc[r] = "history"
    /\ shown' = [shown EXCEPT ![r] = first[SessionOf[r]]]
    /\ rpc' = [rpc EXCEPT ![r] = "ended"]
    /\ UNCHANGED <<rows, first, who, seen, head, usage, lpc, found, titles, contended>>

(***************************************************************************)
(* list_chat_sessions.                                                     *)
(***************************************************************************)
SelectSessions(l) ==
    /\ lpc[l] = "new"
    /\ \E u \in UsersByToken(ClientOf[l]) :
         LET untitled == {s \in Sessions : rows[s].owner = u.id /\ rows[s].title = None}
         IN  /\ who' = [who EXCEPT ![l] = u.id]
             /\ found' = [found EXCEPT ![l] = untitled]
             /\ Contend(untitled)
    /\ lpc' = [lpc EXCEPT ![l] = "backfill"]
    /\ UNCHANGED <<rows, first, rpc, seen, head, shown, usage, titles>>

\* _backfill_title_from_checkpoint of one untitled row.
Backfill(l, s) ==
    /\ s \in found[l]
    /\ found' = [found EXCEPT ![l] = @ \ {s}]
    /\ titles' = [titles EXCEPT ![l][s] = IF first[s] = None THEN None ELSE DeriveTitle(first[s])]
    /\ UNCHANGED <<rows, first, rpc, who, seen, head, shown, usage, lpc, contended>>

\* One commit for all the rows that got a title; whatever they say by now.
CommitTitles(l) ==
    /\ lpc[l] = "backfill"
    /\ found[l] = {}
    /\ rows' = [s \in Sessions |-> IF titles[l][s] = None THEN rows[s]
                                   ELSE [rows[s] EXCEPT !.title = titles[l][s]]]
    /\ titles' = [titles EXCEPT ![l] = [s \in Sessions |-> None]]
    /\ lpc' = [lpc EXCEPT ![l] = "ended"]
    /\ UNCHANGED <<first, rpc, who, seen, head, shown, usage, found, contended>>

ListingFails(l) ==
    /\ lpc[l] = "backfill"
    /\ found' = [found EXCEPT ![l] = {}]
    /\ titles' = [titles EXCEPT ![l] = [s \in Sessions |-> None]]
    /\ lpc' = [lpc EXCEPT ![l] = "ended"]
    /\ UNCHANGED <<rows, first, rpc, who, seen, head, shown, usage, contended>>

ChatNext ==
    \/ \E r \in Requests :
         \/ Authenticate(r)
         \/ ReadRow(r)
         \/ InsertRow(r)
         \/ UpdateRow(r)
         \/ OpenThread(r)
         \/ WriteCheckpoint(r)
         \/ LogUsage(r)
         \/ RequestFails(r)
         \/ OpenHistory(r)
         \/ ShowHistory(r)
    \/ \E l \in Listings :
         \/ SelectSessions(l)
         \/ \E s \in Sessions : Backfill(l, s)
         \/ CommitTitles(l)
         \/ ListingFails(l)

Init == AccountsInit /\ ChatInit
Next == (AccountsNext /\ UNCHANGED chatVars) \/ (ChatNext /\ UNCHANGED accountVars)
Spec == Init /\ [][Next]_sessionVars

-----------------------------------------------------------------------------
(***************************************************************************)
(* Properties.                                                             *)
(***************************************************************************)
\* Every variable stays in its type; a request past authentication has a user.
TypeOK ==
    /\ AccountsTypeOK
    /\ rows \in [Sessions -> Row \cup {NoRow}]
    /\ first \in [Sessions -> Message \cup {None}]
    /\ rpc \in [Requests -> {"new", "in", "insert", "update", "ensured", "graph",
                             "history", "ended"}]
    /\ who \in [Requests \cup Listings -> Clients \cup {None}]
    /\ seen \in [Requests -> Row \cup {NoRow}]
    /\ head \in [Requests -> Message \cup {None}]
    /\ shown \in [Requests -> Message \cup {None}]
    /\ usage \subseteq Requests
    /\ lpc \in [Listings -> {"new", "backfill", "ended"}]
    /\ found \in [Listings -> SUBSET Sessions]
    /\ titles \in [Listings -> [Sessions -> Message \cup {None}]]
    /\ contended \in [Sessions -> BOOLEAN]

\* The message m is from the conversation that user u has in session s.
Theirs(m, s, u) == m \in Requests => SessionOf[m] = s /\ who[m] = u

\* Whoever gets to a session first keeps it to himself, also when two users send
\* its first message together: the turns that run on it, its title, its thread, the
\* histories read from it and the usage booked on it are all its owner's.
SessionsAreSeparate ==
    /\ \A r \in Requests : LET s == SessionOf[r] IN
         /\ rpc[r] \in {"ensured", "graph"} \/ r \in usage => rows[s].owner = who[r]
         /\ shown[r] # None => Theirs(shown[r], s, who[r])
    /\ \A s \in Sessions :
         /\ rows[s].title # None => Theirs(rows[s].title, s, rows[s].owner)
         /\ first[s] # None => rows[s] # NoRow /\ Theirs(first[s], s, rows[s].owner)

\* A title is set once and no later turn or listing replaces it, unless two of them
\* had it open at the same time (ensure_session_ownership's docstring says so
\* without the exception).
TitleKept ==
    [][\A s \in Sessions :
         rows[s].title # None /\ ~ contended'[s] => rows'[s].title = rows[s].title]_sessionVars

\* A conversation that begins with a text is titled by the turn that brought the
\* text, before its thread exists: only older ones wait for a listing.
ConversationsHaveTitles ==
    \A s \in Sessions :
        first[s] \in Requests /\ DeriveTitle(first[s]) # None => rows[s].title # None
=============================================================================
