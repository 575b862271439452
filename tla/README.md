# Keepa Scout: specifications, model checks and proofs

TLA+ modules of the Keepa Scout system (a FastAPI application with Celery workers,
Postgres, Redis, an LLM agent and a Vue page), TLC configurations that check them on
small instances, and TLAPS proofs of their main invariants for instances of any size.

To check: `tlasany M.tla` parses a module, `tlc -config X.cfg MCM.tla` runs a
configuration, `tlapm MProofs.tla` checks the proofs. `PROJECT.json` lists the runs, the
source lines behind every definition, the mutations every property was tried against, and
the disagreements found between the code and its documents.

## 1. The system

| Component | State | Operations | Interacts with |
|---|---|---|---|
| Catalog refresh (`app/tasks`, `app/routers/refresh.py`) | `refresh_jobs`, `refresh_job_items` in Postgres; tasks in Redis; locals of callers and workers | `_start_refresh` (POST /refresh, beat), `refresh_one_asin`, `_record_item_result`, GET /refresh/status | Keepa client and ingestion in the worker; catalog rows |
| Keepa client (`app/keepa/client.py`) | `_key_index`, shared by all requests of a process | `get_products`, `_request`, `_rotate_key` | Keepa over HTTP; used by UPC lookups, refresh workers, the ETL |
| Ingestion and ETL (`app/ingest.py`, `app/etl.py`) | `asins`, `asin_price_stats` | `fetch_and_upsert_asin`, `fetch_and_upsert_batch`, `run_etl` | Keepa client, parsing, eligibility; refresh reads `asins` |
| Keepa parsing, eligibility and ROI rules | none | pure functions | ingestion, tools |
| Chat router (`app/routers/chat.py`) | `chat_sessions`; one queue and one task per turn | POST /chat, WS /chat/stream, session list, history replay | agent graph, page |
| Agent graph (`app/agent/graph.py`, `state.py`, `checkpointer.py`) | a checkpointed thread per session: messages, `active_filters`, `last_result_asins`, `resolved_entity` | `agent_node`, `tools_node`, `should_continue` | LLM, tools, checkpointer |
| Agent tools (`app/agent/tools.py`) | preferences per user in the store | six tools | catalog, store, thread state |
| Chat page (`Chat.vue`, `useChatSocket.js`) | transcript, streaming bubble, flags, socket status | send, load, select, new chat, socket handlers | chat router by REST and one WebSocket per turn |
| Authentication (`app/auth`, `app/routers/auth.py`) | `users`, `auth_tokens` | register, login, token check | every route, WS handshake |
| UPC lookup (`app/routers/upc.py`) | none | normalise a code, look it up | catalog, Keepa client |
| Usage log, LLM access, configuration, schema | one row per turn | insert | chat router |
| Other pages of the frontend | login state, poll timer | forms over single requests | API |

What is hard here, and what makes each part correct:

- **Refresh.** Several callers, several workers, duplicates by design, early
  acknowledgement, crashes. Correct when at most one job runs, counters equal items, the
  job closes exactly with its last item, nothing pending is forgotten for good.
- **Keepa client.** Coroutines share a key index across awaits. Correct when no request
  loops, none returns to an empty key, and giving up means that every key is out.
- **Chat thread.** Turns of a session may overlap and may be cut anywhere. Correct when
  the history stays a sequence of whole turns, rounds are bounded, and every tool call
  has its result on record.
- **Chat page.** Socket events, history answers and the user interleave freely. Correct
  when every turn ends on the page, nothing is left blinking, results land in the right
  card, and the composer becomes usable again.
- **Sessions.** The first use of a session id claims it; titles are set once, from two
  places. Correct when a session never changes owner and a title never changes.
- **Preferences and tools.** Read-modify-write of one document; calls of one round see the
  state from before the round. Correct when an exclusion is never lost and references
  resolve to what the user last saw.
- **Pure rules.** Parsing, ROI, eligibility, combos, UPC variants: correct against a
  reference definition, at their boundaries.

## 2. The modules

| Module | What it is | Proofs |
|---|---|---|
| `RefreshLedger` | abstract: what a refresh promises to readers of its tables | `RefreshProofs` |
| `Refresh` | the refresh jobs, one action per database statement or broker call | `RefreshProofs` |
| `KeepaClient` | key rotation, retries and batches of overlapping requests | `KeepaClientProofs` |
| `TurnLog` | abstract: a conversation as a list that only grows, and what may come next in it | `ChatThreadProofs` |
| `ChatThread` | the turns of one conversation on its checkpointed thread | `ChatThreadProofs` |
| `ChatView` | the chat page, the socket of a turn and the history requests | `ChatViewProofs` |
| `Directory` | abstract: accounts that come into being at once, and whom a client acts for | `ChatSessionsProofs` |
| `Accounts` | registration, login and bearer tokens | `ChatSessionsProofs` |
| `ChatSessions` | the `chat_sessions` table, the chat requests and the session list; extends `Accounts` | `ChatSessionsProofs` |
| `Preferences` | abstract: one document, changed by one step per confirmed call | `AgentToolsProofs` |
| `AgentTools` | what tool calls do to a session's short-term state and to the user's preferences | `AgentToolsProofs` |
| `PlanCombo` | the combo planner, one loop iteration at a time | `PlanComboProofs` |
| `KeepaParse` | operators: extractors, eligibility rules, ROI, price anomaly | `CatalogProofs` |
| `Catalog` | ETL runs and refresh tasks that write the catalog; extends `KeepaParse` | `CatalogProofs` |
| `MC*` | the instances TLC checks | |

How they fit together: `Refresh` has the life of jobs and tasks, and one of its steps,
`Fetch`, is a whole writer of `Catalog`; a writer's request to Keepa is a request of
`KeepaClient`. A turn is a request of `ChatSessions` until its graph runs, then a turn of
`ChatThread` (its messages) and of `AgentTools` (its state and its preferences), and the
frames it sends are the `server` of `ChatView`. `PlanCombo` is one call of `AgentTools`.
Each module keeps only what the others do not say: `ChatSessions` reduces a thread to its
first message, `AgentTools` lets a combo be any of the candidates.

Definitions marked "Faulty variant" are not part of any specification: each is the
definition after it with a plausible mistake, used to see that a property notices.

### Refresh

A caller is any process in `_start_refresh`: an API request, or the Celery process that
runs beat's task. Its program counter `pc` runs idle -> resume -> enqueue, or idle ->
catalog -> create -> enqueue. `StartRefresh` is the advisory lock together with the SELECT
of the running job (only other callers see the lock, so taking it and reading are one
step); `SelectPending` is a separate step because it is a separate statement with a
snapshot of its own under READ COMMITTED. `CreateJob` is the commit, and `Enqueue` one
`.delay()` after it.

A worker goes through `Receive` (Celery acknowledges here), `Fetch`, `UpdateItem`,
`BumpCounter` and `FinishItem`. The three last ones are one transaction: what it writes
stays in the worker's variables until `FinishItem` commits, while the row locks it holds
block other workers. The locks are read off the program counters (`LocksItem`,
`LocksJob`). A blocked UPDATE re-evaluates its WHERE once the lock is free, which is why
`UpdateItem` tests the item's state only when nobody holds it.

`CallerFails` and `WorkerFails` are a killed process, a broken connection or an exception;
an open transaction is rolled back and an acknowledged task is gone. `LoseTask` is a broker
that comes back from an older snapshot. `RunEtl` adds rows to the catalog at any time.
`queue` is a bag: Redis keeps order, but several workers and callers make any order
possible.

Read through `phase <- state of each job, outcome <- items`, `Refresh` implements
`RefreshLedger`: open over a fixed set, settle each ASIN once, close in the very step that
settles the last.

### KeepaClient

One action handles one answer of Keepa, from the await that returned it to the next one:
the event loop runs nothing else in between. `key` is what a request captured at the top
of the while loop; `keyIndex` is the shared index, which other requests may have moved
since. `Serve` is Keepa: it charges a key, and answers 200 with the tokens left, 402, 429,
400, or fails. A 200 that reports no tokens left counts as exhausted, as in the code.
`seenOut` and `overlapped` are history variables that only properties read.

### ChatThread

A turn is one `graph.ainvoke` on `thread_id = session_id`. `OpenTurn` reads the latest
checkpoint and appends the user's message on the turn's own copy; `SaveInput`, `AgentNode`
and `ToolsNode` each write the copy back as the thread's new latest checkpoint; `CutTurn` is a
model error, a browser that went away, or a crash. `AgentNode` lets the model answer or
ask for up to `MaxCalls` tools, and ends the graph when `ShouldContinue` says so. A message
carries its turn, its round and, for an AIMessage, how many tools it asks for; contents do
not matter to any property. LangGraph and the checkpointer are external and are modelled by
how `app/agent/graph.py` and `app/routers/chat.py` use them.

Read through `log <- saved`, `ChatThread` implements `TurnLog` until turns overlap:
`OpenTurn` does not show, `SaveInput` is `Say`, `AgentNode` is `Reply`, `ToolsNode` is `Return`,
and a cut leaves the log as it is. `TurnLog` knows nothing of copies or of the state of a
run; who replies, in which round and with how many results follows from the last message.

### ChatView

An action is one event handler together with the watchers it triggers. A transcript entry
has a type, the turn that made it, whether it is open (a pending card, a streaming bubble),
and for a card the turn whose result fills it. `currentAnswer` is an index into the
transcript, `Detached` once the entry it refers to has been replaced. `server` is the order
of frames that `_run_streaming_turn` and the graph's sink put on the wire. `Navigate` is the
browser's back button, which, unlike `SelectSession`, no guard refuses. The conversation a
history request was sent for is kept in `requests`; its answer, as in the code, replaces
whatever transcript is shown by then.

### Accounts and ChatSessions

`Register` is the length check and the SELECT, `FlushUser` the INSERT that `db.flush()`
sends, `IssueToken` the one commit of the user with the token. What is flushed and not yet
committed follows from `regpc`; the unique index makes a second INSERT of the address wait,
which is `IndexAdmits`. A token records its holder, the client that was given it; a request
acts for any user a valid token of its client belongs to, as `get_user_by_token` does.

Read through `accounts <-` the committed rows without their ids and `acting <-` the addresses
a client's valid tokens lead to, `Accounts` implements `Directory`: `IssueToken` is `SignUp`,
`Login` is `SignIn`, the last `Expire` is `Lapse`. `Register`, `FlushUser` and a failure do not
show, nor does anything `ChatSessions` does.

A request of `ChatSessions` is a turn or a replay. `ReadRow` is `db.get`, `InsertRow` and
`UpdateRow` are separate statements after it, and what was read may be stale by then.
`WriteCheckpoint` may happen any number of times, also by several overlapping turns.
A listing selects the untitled rows, looks each up in its thread (`Backfill`), and writes
all titles in one commit. `contended` is a history variable: the title of the session was
open to two writers at once.

### AgentTools

A turn opens on the session's latest short-term state, and each of its rounds works on
`next`, a copy of `state`; all calls of a round see `state`, the state from before it. The
three tools that await the preferences are two actions, `ReadPrefs` and one of `BuildFilter`,
`PlanCombo`, `PutPrefs`; other turns and other sessions of the user may run in between. The
model's arguments are arbitrary. `Lists` is the effect of `build_filter_select`: at most
`Limit` different rows that meet every condition and are not excluded, in any order.
`RunReadonlySql` may put any ASINs into the list. `promised`, `known` and `raced` are history.

Read through `document <- prefs`, `confirmed <- promised`, `AgentTools` implements `Preferences`
until two updates overlap: `PutPrefs` is `Update`, and everything else, `ReadPrefs` included,
does not show.

### PlanCombo

One action per iteration of the two loops of `plan_combo_from_candidates`. Money is an
integer number of units, `Cent` of them to a cent, so that a price can be finer than the
cents subtotals are rounded to. `Quantize` rounds to the nearest cent and a tie to the even
one, as `Decimal.quantize` does.

### KeepaParse and Catalog

`KeepaParse` has what `app/keepa/parse.py` and `app/eligibility.py` compute, with exact
fractions where the code has floats. A history of the buy box is a sequence of entries in
any order, some without a readable time. An iteration of the code's loop is the `Segment` of an
entry: the minutes from its time to the next one's in time order (`EndOf`), or to now; Amazon's
share counts the minutes of its segments.

A writer of `Catalog` is a run of the ETL over a CSV or a refresh task over one ASIN. It
reads its costs, waits for Keepa's answer (`Fetch`, any answer), processes one ASIN after
the other in a savepoint of its own (`NotFound`, `Upsert`, `ProcessFails`), and commits. What
it has written stays in `own` until the commit; `lock` is the row lock an upsert takes, and
two ETL runs over different orders of rows could block each other, which Postgres ends with
an error: a `ProcessFails`, or a `Crash`. A refresh task reads the cost before it calls Keepa
and writes it back after: `overtaken` is the history variable for an ETL run in between.

## 3. What the runs check

| Run | Instance | Checks | Shows |
|---|---|---|---|
| `RefreshSafety` | 1 job, 2 ASINs, 2 callers, 2 workers, 2 copies of a task, 2 failures | `TypeOK`, `CountersExact`, `ClosesWithLastItem`, `TasksHaveItems`, `PendingIsCarried`, `ImplementsLedger` | duplicates, races for the last item and crashes never break the tables; the refinement |
| `RefreshJobs` | 2 jobs, 1 ASIN, 2 callers, 1 worker, 1 failure, fair | `AtMostOneRunning`, `EveryJobFinishes` | the lock and the succession of jobs; a lost task is made up for by a later trigger |
| `RefreshEmptyJob` | 1 job, an empty catalog possible | `DoneTheMomentCountsAddUp` | violated: see section 6 |
| `KeepaClient` | 2 requests, 2 keys, 2 attempts, 2 batches, 2 tokens a key, 1 refill, fair | `TypeOK`, `NeverBackToAnEmptyKey`, `GivesUpOnLastKey`, `AloneGivesUpHonestly`, `CallsBounded`, `EveryRequestEnds` | rotation and retries under overlap; every call uses up one of a bounded number |
| `KeepaRotationRace` | 1 batch each, 1 token a key, no refill, no fairness | `ExhaustedMeansEveryKeyOut` | violated: see section 6 |
| `ChatThread` | 3 turns, 1 tool round, up to 2 calls | `TypeOK`, `HistoryInOrder`, `RoundsBounded`, `UnansweredOnlyWhereCut`, `ImplementsTurnLog` | overlap and cuts at every node; the refinement |
| `ChatReplay` | 2 turns, 1 round, 1 call | `ReplayedToolsHaveResults` | violated: see section 6 |
| `ChatView` | 2 conversations, 2 turns of up to 4 frames and a last one, 3 loads, fair | `TypeOK`, `NoCursorLeft`, `ResultsInTheirCards`, `SendableAfterError`, `TurnEnds` | every interleaving of frames, history answers, navigation and failures |
| `ChatSessions` | 3 clients (2 with one address), 3 requests for one session (1 with a blank message), 1 listing | `TypeOK`, `TokensAreEarned`, `SessionsAreSeparate`, `ConversationsHaveTitles`, `TitleKept`, `ImplementsDirectory` | races for an address and for a session, expiry, titles from two places; the refinement |
| `AgentTools` | 2 turns of one session, 2 calls each, 2 ASINs, 2 filter fields | `TypeOK`, `ListsHonourExclusions`, `FiltersExplainList`, `ImplementsPreferences` | any calls in any order, in one round or several, failing or cut; the refinement |
| `PlanCombo` | every 3 rows of 5 costs and 2 categories, 10 budgets, any exclusions, both modes | `WithinBudget`, `BudgetUsedUp`, `EveryCategoryThatFits` | rounding, ties, negative budgets |
| `Catalog` | 2 ETL runs, 2 workers, 2 ASINs, 2 CSVs, 2 products | `RowsAgree`, `CostFromCsv`, `ReportIsTrue` | a stale cost, failures of an item, a call or a process |

**Why the bounds are enough.** Refresh: two ASINs are the least for which an item can be
the last one or not; two callers and two workers the least that race; two copies the least
for a duplicate; one job suffices where jobs do not interact, two where they do. Two
failures allow a crash during the recovery from another. The ids of jobs run out in the
model, not in the code; a caller that needs one waits, which hides nothing because a third
job differs from the second in nothing. KeepaClient: with two keys and two tokens a rotation
can go wrong, a key can be refilled after it was found empty, and a second batch starts
with an index another request has moved; the proofs cover more keys and requests.
ChatThread: three turns are one that is overlapped, one that overlaps it and one that comes
after; a limit of one round is reached and exceeded; two calls allow a missing last result.
ChatView: four frames hold a tool call with its result and a segment of the answer, two
turns a leftover card of the first; three loads are two history answers in the wrong order
after the first. ChatSessions: two clients
that compete for one address and a session, one of them losing each, and a third with a
session from before titles; three requests make two first messages and one that follows
them, the listing a second writer of titles. AgentTools: two calls in each of two turns are a
read overtaken by an update, a list after a confirmed exclusion, and a round of two calls
that set the same field; two ASINs, one of which meets a condition the other does not, tell
a list that is explained from one that is not. PlanCombo: with costs of half a cent up to
two and a half and budgets up to four and a half, subtotals round both ways and tie, several
units fit, and a category is passed in phase 1 and again in phase 2. Catalog: two products
that give different rows, two CSVs of which one lacks a cost and one an ASIN, and as many
writers as can overtake a read.
`CHECK_DEADLOCK FALSE` is set where the system stops: when bounded turns, requests, runs or
a computation are over.

**Fairness.** *Refresh*: a process whose next statement can run runs it (weak); locks are
granted in order and Redis delivers in order, so somebody who waits for one is not passed
over for ever (strong, for `UpdateItem`, `BumpCounter`, `Enqueue`, `Receive`); beat triggers a
refresh every day (strong, for `StartRefresh` by some caller). Failures and the ETL are never
forced. *KeepaClient*: every call is answered because httpx has a timeout of 30 s, and the
event loop runs every ready coroutine. *ChatView*: a handshake succeeds or fails, frames
come to an end because the rounds do, a dead connection is noticed in the end; the user owes
nothing. The other modules have no
liveness property: their requests end because the modules they are parts of do, and nobody
waits for one of them except for row locks, which an ended transaction gives up.

## 4. What is proved

The theorems hold for every value of the constants that satisfies the named assumptions:
finite `Asins` and distinct sentinels for Refresh, at least one key and one attempt for
KeepaClient, natural bounds, and for the others what the constants mean (`NamesAssumption`,
`ToolsAssumption`, `PlanAssumption`, `CatalogAssumption`). The bounds on copies and failures
are arbitrary naturals, so they restrict nothing.

**Refresh** (`RefreshProofs`). `CountersExact` and `ClosesWithLastItem` are not inductive: a
worker that commits counts on a job row it read earlier. The inductive invariant
`RefreshInv` says why it may:

- `StartExclusion`: one caller at a time is between the advisory lock and its commit, and
  while it is there to create a job no job runs;
- `RowExclusion`: two open transactions never hold the same item or the same job row;
- `WorkerInv`: an item a worker holds is still pending, and the row it counted on is still
  the committed one;
- `UnusedInv`: a job that was never created has no items.

Creating a job and committing a result are the two steps that change the tables
(`CreateJobStep`, `FinishItemStep`); the others are dealt with by framing. The arithmetic is
three lemmas on finite sets: the items of a job split by state (`ItemsPartition`), and
settling one moves it from one count to another (`SettleCounts`). From `RefreshInv` follow
`OneRunningJob`, `ExactCounters`, `ClosingTime`, and, with the same two steps as `Open` and
`Settle`, `RefreshImplementsLedger`. `TasksAreBacked` and `NothingForgotten` have invariants
of their own about what callers have still to enqueue.

**KeepaClient** (`KeepaClientProofs`). `KeyInv`: a busy request holds a key at or behind the
index and has rotated at most as often as it has keys behind it. So `keys_tried` never ends
the loop before the index does (`GivesUpLast`), and a rotation leads to a strictly later key
(`NeverBack`). `AloneInv`: until requests overlap the busy one holds the index's key and
every key behind it was seen to be out (`AloneHonest`). `CallsLeft` counts the calls that a
request may still make: the attempts with its key, with the keys it has not reached and for
the batches that wait. By `KeyInv` no step of any request makes it grow and each call makes it
smaller (`CallsAreBounded`): the half of `EveryRequestEnds` that needs no fairness.

**ChatThread** (`ChatThreadProofs`). `MixInv`: every running copy, like the thread, has its
turns in one piece and ends with a message of its own turn, and a turn that has not begun is
in neither (`TurnsStayTogether`). `AloneInv`: until turns overlap the running copy is the
thread (`ThreadOnlyGrows`). `LastInv`: the last message of a copy is what the node its run
stands at expects, and its round is the one `ToolRoundsThisTurn` counts, back to the last
message of the user. With it every write is the `Say`, `Reply` or `Return` that the end of
the thread allows (`ThreadImplementsTurnLog`), and, also when turns overlap, what is
appended fits: `OrderInv`, every history is in order at each of its places, so the thread is
a sequence of whole turns of whole rounds (`HistoriesStayInOrder`). `RoundsInv`: the tools
node runs only in a round within the limit (`RoundLimit`). `ChainInv`: a run has results for
all its calls when it is not in the tools node, and for all but those of its last message
when it is; with `AloneInv` this is what the thread says of it (`CompleteChains`).

**ChatView** (`ChatViewProofs`). `SocketInv`: while the server is busy with a turn the page
has it in flight and not settled. `CursorInv`: a blinking bubble is the one deltas go to, and
there is none unless the server is answering (`NoBlinking`); a close in that state is a close
without a last frame, and the watcher gives the turn up. `CardInv`: while a tool runs the
last pending card, if the transcript still has one, is of this turn (`OwnCards`): an answer to
a history request takes all the cards away together.

**ChatSessions** (`ChatSessionsProofs`). `AccountInv`: a flushed registration has an address
no account and no other flushed registration has (`UniqueAccounts`), and an account comes
into being with its token (`NoHalfRegistration`, `EarnedTokens`). So in the `Directory` a
registration is the one step of its commit; the map of tokens to addresses is followed
through each action (`AccountsStepShown`), and every other step stutters
(`AccountsImplementDirectory`). `ChatInv` and `OwnerInv`: an owner never changes, and every
place a message passes through, a copy of a thread, a title found by a listing, a history,
belongs to a request that saw that owner (`SeparateSessions`; `StepOrigins` says for each
step where what it writes comes from). `TitledInv`: a turn past `ensure_session_ownership`
has left a title unless its message is blank (`TitlesFromTheStart`). `KeptInv`: while no two
writers have had a title open at once, who is about to write one knows that there is none
(`TitlesAreKept`).

**AgentTools** (`AgentToolsProofs`). `PrefsInv`: while updates have not overlapped, one turn at
a time is inside an update, and what it has read still holds every confirmed exclusion
(`ExclusionsAreKept`, `ListsAreClean`). `CurrentInv`, which is stronger: what he has read is the
document as it stands, its budget too, so that his write is an `Update` of it
(`ToolsImplementPreferences`). `ExplainInv`: list and filters are set in one step, so
they stay explained in every copy of the state (`FiltersExplain`).

**PlanCombo** (`PlanComboProofs`). `Rounding`: a subtotal is at most half a cent off. From it
`Overdraft` (what is left is never below minus half a cent), `FillInv` (of every candidate
phase 2 has passed, less than a unit and half a cent is left) and `DiversifyInv` (every
category passed is covered or too expensive for what is left), which stay true because
`remaining` never grows once it has been compared. From these facts
follow `NothingLeftToBuy`, `CategoriesCovered` and `OverdraftBounded`.

`WithinBudget` is about the sum of all subtotals, a fold over a finite set. The library's
induction theorems cannot be instantiated here, but their contrapositive can be used: of the
sets a claim fails for, one has no smaller one below it (`SmallestSubset`, `LeastNatural`). In this
way the module shows that adding to one summand adds to the sum, and with `LedgerInv` (every
subtotal is whole cents, what is left is the budget without their sum) proves
`StaysWithinBudget`. `OrderDetermined` shows the same way that the sort by ROI with ties to the
position has exactly one result for any set of candidates, so `Init` leaves nothing open that
the code determines.

**Catalog** (`CatalogProofs`). `WriterInv`: what a writer has upserted is the row and the stats
of one product it was answered with, at the cost it holds, and is exactly what it reports
"ok" (`ReportsAreTrue`). `PairInv`: so the committed rows of an ASIN come from one product,
and what `/eligibility` computes again is what was stored (`RowsStayTogether`). `CostInv`: a
worker whose row no ETL run has written since has that run's cost (`CostsSurviveRefresh`).
Of the parsing, the arithmetic of the buy box: for histories of any length, unsorted, with
equal or unreadable times, the segments are disjoint and, if nothing lies in the future, hold
every minute of the window (`SegmentsTileTheWindow`); Amazon's share is unknown or from 0 to
100 percent, also with entries in the future (`ShareIsAPercentage`).

## 5. What is only checked, and what is not modelled

Only model-checked: the liveness properties (`EveryJobFinishes`, `EveryRequestEnds`,
`TurnEnds`), which the proof system cannot treat under fairness. Of the second the bound on
the calls is proved. The refinements are of safety: no abstract specification states fairness.

Abstracted: contents of products, messages and arguments; uuids (never repeat); wall-clock
times; SQL other than the effect of each statement; the order in which Redis delivers. In
KeepaClient `tokensLeft` is never negative (the code treats negative as zero). In ChatView a
transcript restored from history is one entry, since a replayed card is never open; the
WebSocket constructor does not throw and the page is not unmounted. In ChatSessions
`updated_at`, and so the order of the list, is left out; a client that holds a valid token
does not log in again. In KeepaParse a title and the conversions of cents and of Keepa's
minutes are left out, and floats are exact.

Not modelled, and why:

- UPC lookup: one request without state, the normalisation of a string and a read.
- Usage log, apart from whom a turn is booked on: token counting and the cost report, which
  no other part reads.
- LLM access and configuration: the models let it answer anything.
- The guard of `run_readonly_sql` on the text of a query: a question of SQL syntax; the tool
  may return any rows here.
- GET /refresh/status and its choice of a job by timestamp.
- Schema creation, the other pages of the frontend, the verification scripts: no state that
  two actors share.

## 6. Disagreements found

Each of these has a run that must fail:

1. **A refresh of an empty catalog never ends** (`RefreshEmptyJob`). The job has 0 of 0 ASINs
   done and stays running, and every later trigger resumes it, although
   `_record_item_result` is documented to close a job the moment its counts add up. The API
   starts even if the ETL failed, so the catalog can be empty.
2. **"All keys are out" is reported too early** (`KeepaRotationRace`). Two overlapping requests
   rotate the shared index twice for one empty key.
3. **Replay shows unanswered tool calls as done** (`ChatReplay`), after the round limit or a
   turn cut in the tools node.

Where a property needs an exception that the documents do not make, the exception is part
of the property and is named here; these have no run:

- `overlapped` in `ImplementsTurnLog` and `UnansweredOnlyWhereCut`: overlapping turns of one session
  drop a turn that was finished, the last checkpoint wins (ARCHITECTURE.md:314-317 says
  that the checkpointer stores the whole chain of messages).
- `raced` in `ImplementsPreferences`: two updates of a user's preferences at once lose one ("never
  clobber it", app/agent/tools.py:605-607).
- `contended` in `TitleKept`: a title is replaced when two writers had it open at once.
- `overtaken` in `CostFromCsv`: a worker puts back a cost it read before an ETL run.
- `WithinBudget` allows half a cent: a combo "stays within budget"
  (tests/test_tool_plan_combo.py:1) up to the rounding of a subtotal.
- `EveryCategoryThatFits`, not more than one category: phase 1 "guarantees
  category_count > 1 whenever >= 2 categories are affordable" (app/agent/tools.py:362-363), but
  the first unit may use up the budget.
- `TurnEnds` and `SendableAfterError` except "unauthorized": the watcher ends a turn on "error"
  only, so a handshake refused with 4401 leaves the composer disabled
  (Chat.vue:360-361).
- A duplicate of a finished task asks Keepa again before it looks at its item: the counters
  stay right (`CountersExact`), the guarantee in refresh_tasks.py:20-23 and
  ARCHITECTURE.md:371 does not hold.

Noticed while modelling: failed items are not retried within a job, though
ARCHITECTURE.md's sequence diagram resumes items that are not "done"; `plan_combo`'s fallback to
the preferred budget is never reached, its schema requires one; `run_readonly_sql` and
`lookup_asin` do not apply the exclusions; a turn of POST /chat whose graph raises has no usage
row, although `log_usage` "always writes"; the socket checks its token once, at the
handshake; of two refreshes of one ASIN the one that was answered first may commit last.

## 7. Plan

Done: the refresh, the Keepa client, threads, the page, accounts and sessions, tools and
preferences, the planner, the catalog and its rules; every safety property that a run checks
is proved, and four parts are shown to implement an abstract specification.

Left, in order of what it would add:

1. `ChatStream`: the server side of the socket (queue, sink, cancellation) as a module of its
   own that implements the order of frames `ChatView` assumes.
2. `Catalog` as the implementation of `Refresh`'s step `Fetch`, by refinement instead of by
   agreement of their comments.
3. `UpcVariants` as operators against a reference definition; GET /refresh/status.
4. The session list's order, once `updated_at` is modelled.

Runs are kept to one per question: small modules share a run with the module they compose
with, and a disagreement whose cause is repaired loses its run.
