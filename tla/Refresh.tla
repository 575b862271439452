------------------------------- MODULE Refresh -------------------------------
(***************************************************************************)
(* The catalog refresh of app/tasks/refresh_tasks.py: POST /refresh and    *)
(* Celery beat (the callers) open a job or resume the running one and put  *)
(* one task per pending ASIN on the broker; Celery workers fetch an ASIN   *)
(* from Keepa and record its outcome in Postgres.                          *)
(*                                                                         *)
(* One action is one database statement or one broker call, because those  *)
(* are the points at which callers and workers interleave.  Postgres runs  *)
(* READ COMMITTED: a statement sees what is committed when it starts, a    *)
(* row updated by an open transaction blocks other updates of that row,    *)
(* and a transaction that dies leaves nothing behind.  The locks are not   *)
(* variables: who holds one follows from the program counters.             *)
(***************************************************************************)
EXTENDS Naturals, FiniteSets

CONSTANTS
    Asins,      \* ASINs that can be in the catalog
    JobIds,     \* ids of refresh jobs (fresh uuids in the code)
    NoJob,      \* a caller that has no job
    Callers,    \* processes that run _start_refresh: API requests, beat's task
    Workers,    \* Celery worker processes
    NoTask,     \* a worker that has no task
    MaxCopies,  \* bound: copies of one task waiting in the broker
    MaxFaults   \* bound: crashes and lost tasks in one behaviour

ASSUME AsinsFinite == IsFiniteSet(Asins)
ASSUME NoJobAssumption == NoJob \notin JobIds
ASSUME NoTaskAssumption == NoTask \notin JobIds \X Asins
ASSUME BoundsAssumption == MaxCopies \in Nat /\ MaxFaults \in Nat

VARIABLES
    catalog,    \* asins: the ASINs with a row
    jobs,       \* refresh_jobs, committed
    items,      \* refresh_job_items.state, committed ("absent": no row)
    pc,         \* where each caller is in _start_refresh
    job,        \* the job a caller resumed or created
    todo,       \* the ASINs a caller read and has still to write or enqueue
    queue,      \* copies of each <<job, asin>> task in the broker
    wpc,        \* where each worker is in refresh_one_asin
    task,       \* the task a worker runs
    status,     \* the item state its fetch leads to
    row,        \* the job row its counter UPDATE returned
    faults      \* failures so far; bounds the instance, read by no program

callerVars == <<pc, job, todo>>
workerVars == <<wpc, task, status, row>>
vars == <<catalog, jobs, items, callerVars, queue, workerVars, faults>>

Tasks == JobIds \X Asins

JobRow == [state : {"none", "running", "done"},
           total : Nat, done : Nat, failed : Nat]

NoRow == [state |-> "none", total |-> 0, done |-> 0, failed |-> 0]

ItemState == {"absent", "pending", "done", "failed"}

Init ==
    /\ catalog \in SUBSET Asins      \* the ETL may have failed, wholly or in part
    /\ jobs = [j \in JobIds |-> NoRow]
    /\ items = [j \in JobIds |-> [a \in Asins |-> "absent"]]
    /\ pc = [c \in Callers |-> "idle"]
    /\ job = [c \in Callers |-> NoJob]
    /\ todo = [c \in Callers |-> {}]
    /\ queue = [t \in Tasks |-> 0]
    /\ wpc = [w \in Workers |-> "idle"]
    /\ task = [w \in Workers |-> NoTask]
    /\ status = [w \in Workers |-> "absent"]
    /\ row = [w \in Workers |-> NoRow]
    /\ faults = 0

Running == {j \in JobIds : jobs[j].state = "running"}
Unused == {j \in JobIds : jobs[j].state = "none"}
ItemsIn(j, s) == {a \in Asins : items[j][a] = s}

(***************************************************************************)
(* _start_refresh.  The advisory lock is held from the first statement to  *)
(* the commit of the transaction.                                          *)
(***************************************************************************)
HoldsStartLock(c) == pc[c] \in {"resume", "catalog", "create"}

\* Faulty variant: no lock is taken.
StartLockIgnored == TRUE
StartLockFree == \A d \in Callers : ~ HoldsStartLock(d)

\* pg_advisory_xact_lock, then the SELECT of the running job, as one step:
\* nobody but the other callers sees the lock.  An id must be left when no job
\* runs (the code's ids never run out).
StartRefresh(c) ==
    /\ pc[c] = "idle"
    /\ StartLockFree
    /\ \/ \E j \in Running :
            /\ job' = [job EXCEPT ![c] = j]
            /\ pc' = [pc EXCEPT ![c] = "resume"]
       \/ /\ Running = {}
          /\ Unused # {}
          /\ pc' = [pc EXCEPT ![c] = "catalog"]
          /\ UNCHANGED job
    /\ UNCHANGED <<catalog, jobs, items, todo, queue, workerVars, faults>>

\* Faulty variant: a trigger that finds a running job only reports it.
ReportOnly(j) == {}
ToResume(j) == ItemsIn(j, "pending")

\* A second statement, so a second snapshot: workers may have settled items,
\* even all of them, since the job was read.  The commit releases the lock.
SelectPending(c) ==
    /\ pc[c] = "resume"
    /\ todo' = [todo EXCEPT ![c] = ToResume(job[c])]
    /\ pc' = [pc EXCEPT ![c] = "enqueue"]
    /\ UNCHANGED <<catalog, jobs, items, job, queue, workerVars, faults>>

SelectCatalog(c) ==
    /\ pc[c] = "catalog"
    /\ todo' = [todo EXCEPT ![c] = catalog]
    /\ pc' = [pc EXCEPT ![c] = "create"]
    /\ UNCHANGED <<catalog, jobs, items, job, queue, workerVars, faults>>

\* Faulty variants: a state no query asks for; the items are left for later.
QueuedRow(n) == [state |-> "queued", total |-> n, done |-> 0, failed |-> 0]
ItemsLater(S) == [a \in Asins |-> "absent"]

NewRow(n) == [state |-> "running", total |-> n, done |-> 0, failed |-> 0]
NewItems(S) == [a \in Asins |-> IF a \in S THEN "pending" ELSE "absent"]

\* Job and items become visible together; only then is anything enqueued.
CreateJob(c) ==
    /\ pc[c] = "create"
    /\ \E j \in Unused :
         /\ jobs' = [jobs EXCEPT ![j] = NewRow(Cardinality(todo[c]))]
         /\ items' = [items EXCEPT ![j] = NewItems(todo[c])]
         /\ job' = [job EXCEPT ![c] = j]
    /\ pc' = [pc EXCEPT ![c] = "enqueue"]
    /\ UNCHANGED <<catalog, todo, queue, workerVars, faults>>

\* refresh_one_asin.delay(job_id, asin), one ASIN of the loop.
Enqueue(c, a) ==
    /\ pc[c] = "enqueue"
    /\ a \in todo[c]
    /\ queue[<<job[c], a>>] < MaxCopies
    /\ queue' = [queue EXCEPT ![<<job[c], a>>] = @ + 1]
    /\ todo' = [todo EXCEPT ![c] = @ \ {a}]
    /\ UNCHANGED <<catalog, jobs, items, pc, job, workerVars, faults>>

Return(c) ==
    /\ pc[c] = "enqueue"
    /\ todo[c] = {}
    /\ pc' = [pc EXCEPT ![c] = "idle"]
    /\ job' = [job EXCEPT ![c] = NoJob]
    /\ UNCHANGED <<catalog, jobs, items, todo, queue, workerVars, faults>>

(***************************************************************************)
(* refresh_one_asin.                                                       *)
(***************************************************************************)
\* Celery acknowledges on receipt: from here the task lives in this process.
Receive(w, t) ==
    /\ wpc[w] = "idle"
    /\ queue[t] > 0
    /\ queue' = [queue EXCEPT ![t] = @ - 1]
    /\ task' = [task EXCEPT ![w] = t]
    /\ wpc' = [wpc EXCEPT ![w] = "fetch"]
    /\ UNCHANGED <<catalog, jobs, items, callerVars, status, row, faults>>

\* Faulty variant: a failed item is left for the next refresh.
RetryLater(result) == IF result = "ok" THEN "done" ELSE "pending"

\* "not_found" counts as failed: the jobs table has no third counter.
ResultState(result) == IF result = "ok" THEN "done" ELSE "failed"

\* The task is over, whatever came of it.
Idle(w) ==
    /\ wpc' = [wpc EXCEPT ![w] = "idle"]
    /\ task' = [task EXCEPT ![w] = NoTask]
    /\ status' = [status EXCEPT ![w] = "absent"]
    /\ row' = [row EXCEPT ![w] = NoRow]

\* fetch_and_upsert_asin: Keepa is asked whatever the item's state is.
Fetch(w) ==
    /\ wpc[w] = "fetch"
    /\ \E result \in {"ok", "not_found", "error"} :
         status' = [status EXCEPT ![w] = ResultState(result)]
    /\ wpc' = [wpc EXCEPT ![w] = "item"]
    /\ UNCHANGED <<catalog, jobs, items, callerVars, queue, task, row, faults>>

\* The open transactions of _record_item_result and the rows they have locked.
LocksItem(w) == wpc[w] \in {"counter", "finish"}
LocksJob(w) == wpc[w] = "finish"

\* Faulty variant: no state condition.
AnyState(j, a) == TRUE
StillPending(j, a) == items[j][a] = "pending"

\* UPDATE refresh_job_items ... WHERE state = 'pending'.  A blocked update looks
\* at the row again when the lock is free.
UpdateItem(w) ==
    /\ wpc[w] = "item"
    /\ \A v \in Workers : LocksItem(v) => task[v] # task[w]
    /\ LET j == task[w][1]  a == task[w][2] IN
         \/ /\ StillPending(j, a)
            /\ wpc' = [wpc EXCEPT ![w] = "counter"]
            /\ UNCHANGED <<task, status, row>>
         \/ /\ ~ StillPending(j, a)           \* rowcount = 0
            /\ Idle(w)
    /\ UNCHANGED <<catalog, jobs, items, callerVars, queue, faults>>

\* The job row with this worker's outcome counted.
Counted(r, s) ==
    IF s = "done" THEN [r EXCEPT !.done = @ + 1] ELSE [r EXCEPT !.failed = @ + 1]

\* UPDATE refresh_jobs SET done = done + 1 ... RETURNING done, failed, total.
BumpCounter(w) ==
    /\ wpc[w] = "counter"
    /\ \A v \in Workers : LocksJob(v) => task[v][1] # task[w][1]
    /\ row' = [row EXCEPT ![w] = Counted(jobs[task[w][1]], status[w])]
    /\ wpc' = [wpc EXCEPT ![w] = "finish"]
    /\ UNCHANGED <<catalog, jobs, items, callerVars, queue, task, status, faults>>

\* Faulty variants: failed items are forgotten; one item too early.
CompletedDoneOnly(r) == r.done >= r.total
CompletedEarly(r) == r.done + r.failed + 1 >= r.total

\* done + failed >= total: the job is over.
Completed(r) == r.done + r.failed >= r.total

\* The completion UPDATE and the commit that makes item and counter visible.
FinishItem(w) ==
    /\ wpc[w] = "finish"
    /\ LET j == task[w][1]  a == task[w][2] IN
         /\ items' = [items EXCEPT ![j] = [@ EXCEPT ![a] = status[w]]]
         /\ jobs' = [jobs EXCEPT
                       ![j] = IF Completed(row[w]) /\ row[w].state = "running"
                              THEN [row[w] EXCEPT !.state = "done"]
                              ELSE row[w]]
    /\ Idle(w)
    /\ UNCHANGED <<catalog, callerVars, queue, faults>>

(***************************************************************************)
(* The environment.                                                        *)
(***************************************************************************)
\* app.etl, run at every start of the api container, adds what Keepa returned.
RunEtl(S) ==
    /\ catalog' = catalog \cup S
    /\ UNCHANGED <<jobs, items, callerVars, queue, workerVars, faults>>

Fault == faults < MaxFaults /\ faults' = faults + 1

\* The process dies, the database connection breaks, or .delay() raises because
\* the broker is away: an open transaction rolls back, the loop is cut short.
CallerFails(c) ==
    /\ Fault
    /\ pc[c] # "idle"
    /\ pc' = [pc EXCEPT ![c] = "idle"]
    /\ job' = [job EXCEPT ![c] = NoJob]
    /\ todo' = [todo EXCEPT ![c] = {}]
    /\ UNCHANGED <<catalog, jobs, items, queue, workerVars>>

\* The worker is killed or the task raises: the acknowledged task is gone.
WorkerFails(w) ==
    /\ Fault
    /\ wpc[w] # "idle"
    /\ Idle(w)
    /\ UNCHANGED <<catalog, jobs, items, callerVars, queue>>

\* Redis restarts from an older snapshot.
LoseTask(t) ==
    /\ Fault
    /\ queue[t] > 0
    /\ queue' = [queue EXCEPT ![t] = @ - 1]
    /\ UNCHANGED <<catalog, jobs, items, callerVars, workerVars>>

Caller(c) ==
    \/ StartRefresh(c)
    \/ SelectPending(c)
    \/ SelectCatalog(c)
    \/ CreateJob(c)
    \/ \E a \in Asins : Enqueue(c, a)
    \/ Return(c)

Worker(w) ==
    \/ \E t \in Tasks : Receive(w, t)
    \/ Fetch(w)
    \/ UpdateItem(w)
    \/ BumpCounter(w)
    \/ FinishItem(w)

Environment ==
    \/ \E S \in SUBSET Asins : RunEtl(S)
    \/ \E c \in Callers : CallerFails(c)
    \/ \E w \in Workers : WorkerFails(w)
    \/ \E t \in Tasks : LoseTask(t)

Next ==
    \/ \E c \in Callers : Caller(c)
    \/ \E w \in Workers : Worker(w)
    \/ Environment

Spec == Init /\ [][Next]_vars

(***************************************************************************)
(* Fairness: a process that can take its next statement does so, row locks *)
(* and the advisory lock are granted in arrival order and Redis delivers   *)
(* in order (so a process that waits for one of them is not passed over    *)
(* for ever: strong fairness), and beat triggers a refresh every day.  The *)
(* ETL and the failures are not fair.                                      *)
(***************************************************************************)
CallerFairness(c) ==
    /\ WF_vars(SelectPending(c) \/ SelectCatalog(c) \/ CreateJob(c) \/ Return(c))
    /\ SF_vars(\E a \in Asins : Enqueue(c, a))

WorkerFairness(w) ==
    /\ WF_vars(Fetch(w) \/ FinishItem(w))
    /\ SF_vars(UpdateItem(w) \/ BumpCounter(w))

Fairness ==
    /\ SF_vars(\E c \in Callers : StartRefresh(c))
    /\ \A c \in Callers : CallerFairness(c)
    /\ \A w \in Workers : WorkerFairness(w)
    /\ \A t \in Tasks : SF_vars(\E w \in Workers : Receive(w, t))

FairSpec == Spec /\ Fairness

-----------------------------------------------------------------------------
(***************************************************************************)
(* Properties.                                                             *)
(***************************************************************************)
\* Every variable stays in its type; a busy worker has a task, and a caller
\* past its SELECT has a job.
TypeOK ==
    /\ catalog \in SUBSET Asins
    /\ jobs \in [JobIds -> JobRow]
    /\ items \in [JobIds -> [Asins -> ItemState]]
    /\ pc \in [Callers -> {"idle", "resume", "catalog", "create", "enqueue"}]
    /\ job \in [Callers -> JobIds \cup {NoJob}]
    /\ todo \in [Callers -> SUBSET Asins]
    /\ queue \in [Tasks -> Nat]
    /\ wpc \in [Workers -> {"idle", "fetch", "item", "counter", "finish"}]
    /\ task \in [Workers -> Tasks \cup {NoTask}]
    /\ status \in [Workers -> ItemState]
    /\ row \in [Workers -> JobRow]
    /\ faults \in Nat
    /\ \A c \in Callers : pc[c] \in {"resume", "enqueue"} => job[c] \in JobIds
    /\ \A w \in Workers : wpc[w] # "idle" => task[w] \in Tasks

\* POST /refresh and beat racing each other never leave two jobs running: what
\* the advisory lock of _start_refresh is for.
AtMostOneRunning == \A j, k \in Running : j = k

\* The counters of a job are what its items say, however many copies of a task
\* ran, in whatever order, and wherever a worker died: what the "WHERE state =
\* 'pending'" and the single-statement increment of _record_item_result are for.
CountersExact ==
    \A j \in JobIds :
        /\ jobs[j].total = Cardinality({a \in Asins : items[j][a] # "absent"})
        /\ jobs[j].done = Cardinality(ItemsIn(j, "done"))
        /\ jobs[j].failed = Cardinality(ItemsIn(j, "failed"))

\* A job that says "done" has no pending item, and a job that has items and none
\* pending does not say "running": the completion UPDATE neither fires early
\* (status would report success over unfetched ASINs) nor is skipped by all of
\* several workers that finish together (the job would stay open).
ClosesWithLastItem ==
    \A j \in JobIds :
        /\ jobs[j].state = "done" => ItemsIn(j, "pending") = {}
        /\ jobs[j].state = "running" /\ jobs[j].total > 0 => ItemsIn(j, "pending") # {}

\* A task in the broker or in a worker names an item that exists: tasks are sent
\* after the commit.  One sent before could be run, find no row, count as already
\* resolved, and leave its item pending with nobody to run it.
TasksHaveItems ==
    /\ \A t \in Tasks : queue[t] > 0 => items[t[1]][t[2]] # "absent"
    /\ \A w \in Workers : wpc[w] # "idle" => items[task[w][1]][task[w][2]] # "absent"

\* Somebody is on the way to settle this item: the broker, a worker that has not
\* recorded it yet, or a caller that has still to enqueue it.
Carried(j, a) ==
    \/ queue[<<j, a>>] > 0
    \/ \E w \in Workers : wpc[w] # "idle" /\ task[w] = <<j, a>>
    \/ \E c \in Callers : pc[c] = "enqueue" /\ job[c] = j /\ a \in todo[c]

\* Without failures no pending item is forgotten, so a refresh needs no second
\* trigger: every pending item is carried by somebody.
PendingIsCarried ==
    faults = 0 => \A j \in JobIds : \A a \in ItemsIn(j, "pending") : Carried(j, a)

\* Read through the jobs and items tables, the system is the RefreshLedger: queue,
\* duplicates, locks, crashes and lost tasks do not show.
Ledger == INSTANCE RefreshLedger WITH
              phase <- [j \in JobIds |-> jobs[j].state],
              outcome <- items
ImplementsLedger == Ledger!LedgerSpec

\* Every job over a non-empty catalog is eventually done: after the last failure
\* some later trigger resumes whatever was lost.  (ARCHITECTURE.md 3.4)
EveryJobFinishes ==
    \A j \in JobIds :
        (jobs[j].state = "running" /\ jobs[j].total > 0) ~> (jobs[j].state = "done")

\* What the docstring of _record_item_result says: the job is "done" the moment
\* done + failed = total.  False for the job created over an empty catalog.
DoneTheMomentCountsAddUp ==
    \A j \in Running : jobs[j].done + jobs[j].failed # jobs[j].total
=============================================================================
