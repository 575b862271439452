---------------------------- MODULE RefreshProofs ----------------------------
(***************************************************************************)
(* Proofs about Refresh, for every catalog, any number of jobs, callers    *)
(* and workers, and every bound on copies and failures.                    *)
(***************************************************************************)
EXTENDS Refresh, FiniteSetTheorems, TLAPS

\* The one-line operators that the actions are written with.
USE DEF StartLockFree, ToResume, NewRow, NewItems, ResultState, StillPending

-----------------------------------------------------------------------------
(***************************************************************************)
(* Types.                                                                  *)
(***************************************************************************)
\* Counting an outcome keeps a job row a job row.
LEMMA CountedType ==
    ASSUME NEW r \in JobRow, NEW s \in ItemState
    PROVE  Counted(r, s) \in JobRow
BY DEF Counted, JobRow, ItemState

\* The empty tables and idle processes are well typed.
LEMMA TypeInit == Init => TypeOK
BY DEF Init, TypeOK, NoRow, JobRow, ItemState

\* Every action keeps the types.
LEMMA TypeStep == TypeOK /\ [Next]_vars => TypeOK'
<1> SUFFICES ASSUME TypeOK, [Next]_vars PROVE TypeOK'
  OBVIOUS
<1> USE DEF TypeOK
<1>1. CASE UNCHANGED vars
  BY <1>1 DEF vars, callerVars, workerVars
<1>2. ASSUME NEW c \in Callers, StartRefresh(c) PROVE TypeOK'
  BY <1>2 DEF StartRefresh, Running, workerVars
<1>3. ASSUME NEW c \in Callers, SelectPending(c) PROVE TypeOK'
  BY <1>3 DEF SelectPending, ItemsIn, workerVars
<1>4. ASSUME NEW c \in Callers, SelectCatalog(c) PROVE TypeOK'
  BY <1>4 DEF SelectCatalog, workerVars
<1>5. ASSUME NEW c \in Callers, CreateJob(c) PROVE TypeOK'
  <2>1. PICK j \in Unused :
          /\ jobs' = [jobs EXCEPT ![j] = NewRow(Cardinality(todo[c]))]
          /\ items' = [items EXCEPT ![j] = NewItems(todo[c])]
          /\ job' = [job EXCEPT ![c] = j]
    BY <1>5 DEF CreateJob
  <2>2. j \in JobIds
    BY DEF Unused
  <2>3. Cardinality(todo[c]) \in Nat
    <3>1. todo[c] \in SUBSET Asins
      OBVIOUS
    <3>2. QED
      BY <3>1, AsinsFinite, FS_Subset, FS_CardinalityType
  <2>4. jobs' \in [JobIds -> JobRow]
    BY <2>1, <2>2, <2>3 DEF JobRow
  <2>5. items' \in [JobIds -> [Asins -> ItemState]]
    BY <2>1, <2>2 DEF ItemState
  <2>6. QED
    BY <1>5, <2>1, <2>2, <2>4, <2>5 DEF CreateJob, workerVars
<1>6. ASSUME NEW c \in Callers, NEW a \in Asins, Enqueue(c, a) PROVE TypeOK'
  BY <1>6 DEF Enqueue, workerVars, Tasks
<1>7. ASSUME NEW c \in Callers, Return(c) PROVE TypeOK'
  BY <1>7 DEF Return, workerVars
<1>8. ASSUME NEW w \in Workers, NEW t \in Tasks, Receive(w, t) PROVE TypeOK'
  BY <1>8 DEF Receive, callerVars
<1>9. ASSUME NEW w \in Workers, Fetch(w) PROVE TypeOK'
  BY <1>9 DEF Fetch, callerVars, ResultState, ItemState
<1> DEFINE Settled(w) == Idle(w) => /\ wpc' \in [Workers -> {"idle", "fetch", "item", "counter", "finish"}]
                                    /\ task' \in [Workers -> Tasks \cup {NoTask}]
                                    /\ status' \in [Workers -> ItemState]
                                    /\ row' \in [Workers -> JobRow]
                                    /\ \A v \in Workers : wpc'[v] # "idle" => task'[v] \in Tasks
<1>10. \A w \in Workers : Settled(w)
  BY DEF Idle, NoRow, JobRow, ItemState
<1>11. ASSUME NEW w \in Workers, UpdateItem(w) PROVE TypeOK'
  <2>1. CASE Idle(w)
    BY <1>10, <1>11, <2>1 DEF UpdateItem, callerVars
  <2>2. CASE wpc' = [wpc EXCEPT ![w] = "counter"] /\ UNCHANGED <<task, status, row>>
    BY <1>11, <2>2 DEF UpdateItem, callerVars
  <2>3. QED
    BY <1>11, <2>1, <2>2 DEF UpdateItem
<1>12. ASSUME NEW w \in Workers, BumpCounter(w) PROVE TypeOK'
  <2>1. task[w] \in Tasks /\ jobs[task[w][1]] \in JobRow /\ status[w] \in ItemState
    BY <1>12 DEF BumpCounter, Tasks
  <2>2. row' \in [Workers -> JobRow]
    BY <1>12, <2>1, CountedType DEF BumpCounter
  <2>3. QED
    BY <1>12, <2>2 DEF BumpCounter, callerVars
<1>13. ASSUME NEW w \in Workers, FinishItem(w) PROVE TypeOK'
  <2>1. task[w] \in Tasks /\ task[w][1] \in JobIds /\ task[w][2] \in Asins
    BY <1>13 DEF FinishItem, Tasks
  <2>2. jobs' \in [JobIds -> JobRow]
    BY <1>13, <2>1 DEF FinishItem, JobRow
  <2>3. items' \in [JobIds -> [Asins -> ItemState]]
    BY <1>13, <2>1 DEF FinishItem
  <2>4. QED
    BY <1>10, <1>13, <2>2, <2>3 DEF FinishItem, callerVars
<1>14. ASSUME NEW S \in SUBSET Asins, RunEtl(S) PROVE TypeOK'
  BY <1>14 DEF RunEtl, callerVars, workerVars
<1>15. ASSUME NEW c \in Callers, CallerFails(c) PROVE TypeOK'
  BY <1>15 DEF CallerFails, Fault, workerVars
<1>16. ASSUME NEW w \in Workers, WorkerFails(w) PROVE TypeOK'
  BY <1>10, <1>16 DEF WorkerFails, Fault, callerVars
<1>17. ASSUME NEW t \in Tasks, LoseTask(t) PROVE TypeOK'
  BY <1>17 DEF LoseTask, Fault, callerVars, workerVars
<1>18. QED
  BY <1>1, <1>2, <1>3, <1>4, <1>5, <1>6, <1>7, <1>8, <1>9, <1>11, <1>12, <1>13,
     <1>14, <1>15, <1>16, <1>17 DEF Next, Caller, Worker, Environment

\* Every reachable state is well typed: what each action of Refresh writes to the
\* tables, the broker and the processes' local variables.
THEOREM TypeCorrect == Spec => []TypeOK
BY TypeInit, TypeStep, PTL DEF Spec
-----------------------------------------------------------------------------
(***************************************************************************)
(* The inductive invariant.  AtMostOneRunning and the counters hold        *)
(* because of three kinds of exclusion, which are its first conjuncts:     *)
(* the advisory lock among callers, the item lock and the job row lock     *)
(* among workers.                                                          *)
(***************************************************************************)
\* One caller at a time is between its lock and its commit, and while it is
\* there to create a job, no job runs.
StartExclusion ==
    /\ \A c, d \in Callers : HoldsStartLock(c) /\ HoldsStartLock(d) => c = d
    /\ \A c \in Callers : pc[c] \in {"catalog", "create"} => Running = {}

\* Two open transactions never hold the same item, nor the same job row.
RowExclusion ==
    \A v, w \in Workers : v # w =>
        /\ LocksItem(v) /\ LocksItem(w) => task[v] # task[w]
        /\ LocksJob(v) /\ LocksJob(w) => task[v][1] # task[w][1]

\* What a worker that records a result relies on: its item is still pending while
\* it holds it, and the job row it counted on is still the committed one.
WorkerInv ==
    \A w \in Workers :
        /\ wpc[w] \in {"item", "counter", "finish"} => status[w] \in {"done", "failed"}
        /\ LocksItem(w) => items[task[w][1]][task[w][2]] = "pending"
        /\ LocksJob(w) => row[w] = Counted(jobs[task[w][1]], status[w])

\* A job that was never created has no items.
UnusedInv == \A j \in Unused : \A a \in Asins : items[j][a] = "absent"

RefreshInv ==
    /\ TypeOK
    /\ StartExclusion
    /\ RowExclusion
    /\ WorkerInv
    /\ UnusedInv
    /\ AtMostOneRunning
    /\ CountersExact
    /\ ClosesWithLastItem

-----------------------------------------------------------------------------
(***************************************************************************)
(* Counting items.  F is the row of item states of one job.                *)
(***************************************************************************)
With(F, s) == {a \in Asins : F[a] = s}
Present(F) == {a \in Asins : F[a] # "absent"}

\* The items of a job are finitely many.
LEMMA ItemsFinite ==
    ASSUME NEW F, NEW s
    PROVE  /\ IsFiniteSet(With(F, s)) /\ Cardinality(With(F, s)) \in Nat
           /\ IsFiniteSet(Present(F)) /\ Cardinality(Present(F)) \in Nat
BY AsinsFinite, FS_Subset, FS_CardinalityType DEF With, Present

\* Disjoint finite sets: the sizes add up.
LEMMA DisjointSum ==
    ASSUME NEW S, IsFiniteSet(S), NEW T, IsFiniteSet(T), S \cap T = {}
    PROVE  /\ IsFiniteSet(S \cup T)
           /\ Cardinality(S \cup T) = Cardinality(S) + Cardinality(T)
<1>1. Cardinality(S) \in Nat /\ Cardinality(T) \in Nat /\ Cardinality(S \cap T) = 0
  BY FS_CardinalityType, FS_EmptySet
<1>2. /\ IsFiniteSet(S \cup T)
      /\ Cardinality(S \cup T) = Cardinality(S) + Cardinality(T) - Cardinality(S \cap T)
  BY FS_Union
<1>3. QED
  BY <1>1, <1>2

\* Every item of a job is pending, done or failed, and only one of them.
LEMMA ItemsPartition ==
    ASSUME NEW F \in [Asins -> ItemState]
    PROVE  Cardinality(Present(F)) =
             Cardinality(With(F, "pending")) + Cardinality(With(F, "done"))
               + Cardinality(With(F, "failed"))
<1>1. \A s : IsFiniteSet(With(F, s)) /\ Cardinality(With(F, s)) \in Nat
  BY ItemsFinite
<1>2. /\ With(F, "done") \cap With(F, "failed") = {}
      /\ With(F, "pending") \cap (With(F, "done") \cup With(F, "failed")) = {}
      /\ Present(F) = With(F, "pending") \cup (With(F, "done") \cup With(F, "failed"))
  BY DEF With, Present, ItemState
<1>3. /\ IsFiniteSet(With(F, "done") \cup With(F, "failed"))
      /\ Cardinality(With(F, "done") \cup With(F, "failed"))
           = Cardinality(With(F, "done")) + Cardinality(With(F, "failed"))
  BY <1>1, <1>2, DisjointSum
<1>4. Cardinality(With(F, "pending") \cup (With(F, "done") \cup With(F, "failed")))
        = Cardinality(With(F, "pending"))
            + Cardinality(With(F, "done") \cup With(F, "failed"))
  BY <1>1, <1>2, <1>3, DisjointSum
<1>5. QED
  BY <1>1, <1>2, <1>3, <1>4

\* Settling a pending item moves it from the pending ones to those of its outcome
\* and changes no other count.
LEMMA SettleCounts ==
    ASSUME NEW F \in [Asins -> ItemState], NEW a \in Asins, F[a] = "pending",
           NEW s \in {"done", "failed"},
           NEW G, G = [F EXCEPT ![a] = s]
    PROVE  /\ Present(G) = Present(F)
           /\ With(G, "pending") = With(F, "pending") \ {a}
           /\ \A o \in {"done", "failed"} :
                Cardinality(With(G, o)) =
                  IF o = s THEN Cardinality(With(F, o)) + 1 ELSE Cardinality(With(F, o))
<1>1. Present(G) = Present(F) /\ With(G, "pending") = With(F, "pending") \ {a}
  BY DEF With, Present, ItemState
<1>2. ASSUME NEW o \in {"done", "failed"}
      PROVE  Cardinality(With(G, o)) =
               IF o = s THEN Cardinality(With(F, o)) + 1 ELSE Cardinality(With(F, o))
  <2>1. CASE o = s
    <3>1. With(G, o) = With(F, o) \cup {a} /\ a \notin With(F, o)
      BY <2>1 DEF With
    <3>2. QED
      BY <2>1, <3>1, ItemsFinite, FS_AddElement
  <2>2. CASE o # s
    <3>1. With(G, o) = With(F, o)
      BY <2>2 DEF With
    <3>2. QED
      BY <2>2, <3>1
  <2>3. QED
    BY <2>1, <2>2
<1>3. QED
  BY <1>1, <1>2

-----------------------------------------------------------------------------
(***************************************************************************)
(* The invariant, action by action.  TableInv reads only the committed     *)
(* tables, WorkerExclusion only those and the workers, StartExclusion only *)
(* jobs and the callers; most actions touch one of the three.              *)
(***************************************************************************)
TableInv == UnusedInv /\ AtMostOneRunning /\ CountersExact /\ ClosesWithLastItem
WorkerExclusion == RowExclusion /\ WorkerInv

\* A step that leaves the tables alone keeps what is said of them.
LEMMA TableFrame ==
    ASSUME TableInv, UNCHANGED <<jobs, items>>
    PROVE  TableInv'
BY DEF TableInv, UnusedInv, AtMostOneRunning, CountersExact, ClosesWithLastItem,
       Running, Unused, ItemsIn

\* A step that leaves workers and tables alone keeps the row locks in order.
LEMMA WorkerFrame ==
    ASSUME WorkerExclusion, UNCHANGED <<jobs, items, workerVars>>
    PROVE  WorkerExclusion'
BY DEF WorkerExclusion, RowExclusion, WorkerInv, LocksItem, LocksJob, workerVars

\* A step that leaves callers and jobs alone keeps the start lock in order.
LEMMA StartFrame ==
    ASSUME StartExclusion, UNCHANGED <<jobs, callerVars>>
    PROVE  StartExclusion'
BY DEF StartExclusion, HoldsStartLock, Running, callerVars

\* What the callers do apart from creating a job respects the advisory lock.
LEMMA CallerSteps ==
    ASSUME TypeOK, StartExclusion, NEW c \in Callers,
           \/ StartRefresh(c) \/ SelectPending(c) \/ SelectCatalog(c)
           \/ (\E a \in Asins : Enqueue(c, a)) \/ Return(c) \/ CallerFails(c)
    PROVE  StartExclusion' /\ UNCHANGED <<jobs, items, workerVars>>
<1> USE DEF TypeOK, StartExclusion, HoldsStartLock, Running
<1>1. CASE StartRefresh(c)
  BY <1>1 DEF StartRefresh, Unused
<1>2. CASE SelectPending(c)
  BY <1>2 DEF SelectPending
<1>3. CASE SelectCatalog(c)
  BY <1>3 DEF SelectCatalog
<1>4. ASSUME NEW a \in Asins, Enqueue(c, a)
      PROVE  StartExclusion' /\ UNCHANGED <<jobs, items, workerVars>>
  BY <1>4 DEF Enqueue
<1>5. CASE Return(c)
  BY <1>5 DEF Return
<1>6. CASE CallerFails(c)
  BY <1>6 DEF CallerFails
<1>7. QED
  BY <1>1, <1>2, <1>3, <1>4, <1>5, <1>6

\* What the workers do apart from committing a result respects the row locks.
LEMMA WorkerSteps ==
    ASSUME TypeOK, WorkerExclusion, NEW w \in Workers,
           \/ (\E t \in Tasks : Receive(w, t)) \/ Fetch(w) \/ UpdateItem(w)
           \/ BumpCounter(w) \/ WorkerFails(w)
    PROVE  WorkerExclusion' /\ UNCHANGED <<jobs, items, callerVars>>
<1> USE DEF TypeOK, WorkerExclusion, RowExclusion, WorkerInv, LocksItem, LocksJob
<1>1. ASSUME NEW t \in Tasks, Receive(w, t)
      PROVE  WorkerExclusion' /\ UNCHANGED <<jobs, items, callerVars>>
  BY <1>1 DEF Receive
<1>2. CASE Fetch(w)
  BY <1>2 DEF Fetch, ResultState
<1>3. CASE UpdateItem(w)
  <2>1. UNCHANGED <<jobs, items, callerVars>>
    BY <1>3 DEF UpdateItem
  <2>2. CASE Idle(w)
    BY <2>1, <2>2 DEF Idle
  <2>3. CASE /\ items[task[w][1]][task[w][2]] = "pending"
             /\ wpc' = [wpc EXCEPT ![w] = "counter"]
             /\ UNCHANGED <<task, status, row>>
    BY <1>3, <2>1, <2>3 DEF UpdateItem
  <2>4. QED
    BY <1>3, <2>1, <2>2, <2>3 DEF UpdateItem
<1>4. CASE BumpCounter(w)
  BY <1>4 DEF BumpCounter
<1>5. CASE WorkerFails(w)
  BY <1>5 DEF WorkerFails, Idle
<1>6. QED
  BY <1>1, <1>2, <1>3, <1>4, <1>5

\* CountersExact and ClosesWithLastItem, one job at a time.
RowExact(r, F) ==
    /\ r.total = Cardinality(Present(F))
    /\ r.done = Cardinality(With(F, "done"))
    /\ r.failed = Cardinality(With(F, "failed"))

RowCloses(r, F) ==
    /\ r.state = "done" => With(F, "pending") = {}
    /\ r.state = "running" /\ r.total > 0 => With(F, "pending") # {}

\* The invariants of the tables, said job by job.
LEMMA RowForm ==
    /\ CountersExact <=> \A j \in JobIds : RowExact(jobs[j], items[j])
    /\ ClosesWithLastItem <=> \A j \in JobIds : RowCloses(jobs[j], items[j])
BY DEF CountersExact, ClosesWithLastItem, RowExact, RowCloses, Present, With, ItemsIn

\* The same in the next state.
LEMMA RowFormPrime ==
    /\ CountersExact' <=> \A j \in JobIds : RowExact(jobs'[j], items'[j])
    /\ ClosesWithLastItem' <=> \A j \in JobIds : RowCloses(jobs'[j], items'[j])
BY DEF CountersExact, ClosesWithLastItem, RowExact, RowCloses, Present, With, ItemsIn

\* Creating a job: the advisory lock and the absence of a running job make it the
\* only running one; its id is unused, so no worker is at work on it.
LEMMA CreateJobStep ==
    ASSUME TypeOK, StartExclusion, TableInv, WorkerExclusion,
           NEW c \in Callers, CreateJob(c)
    PROVE  StartExclusion' /\ TableInv' /\ WorkerExclusion'
<1> DEFINE newRow == NewRow(Cardinality(todo[c]))
           newItems == NewItems(todo[c])
<1>1. PICK j \in Unused : /\ jobs' = [jobs EXCEPT ![j] = newRow]
                          /\ items' = [items EXCEPT ![j] = newItems]
  BY DEF CreateJob
<1>2. j \in JobIds /\ jobs[j].state = "none" /\ todo[c] \in SUBSET Asins
  BY DEF Unused, TypeOK
<1>3. pc[c] = "create" /\ Running = {}
  BY DEF CreateJob, StartExclusion
<1>4. jobs'[j] = newRow /\ items'[j] = newItems
  BY <1>1, <1>2 DEF TypeOK
<1>5. \A k \in JobIds \ {j} : jobs'[k] = jobs[k] /\ items'[k] = items[k]
  BY <1>1 DEF TypeOK
<1>6. Running' = {j}
  BY <1>2, <1>3, <1>4, <1>5 DEF Running
<1>7. StartExclusion'
  <2>1. \A d \in Callers : HoldsStartLock(d) => d = c
    BY <1>3 DEF StartExclusion, HoldsStartLock
  <2>2. pc' = [pc EXCEPT ![c] = "enqueue"]
    BY DEF CreateJob
  <2>3. QED
    BY <2>1, <2>2 DEF StartExclusion, HoldsStartLock, TypeOK
<1>8. UnusedInv' /\ AtMostOneRunning'
  BY <1>2, <1>4, <1>5, <1>6 DEF UnusedInv, AtMostOneRunning, Unused, TableInv
<1>9. /\ RowExact(newRow, newItems)
      /\ RowCloses(newRow, newItems)
  <2>1. /\ Present(newItems) = todo[c] /\ With(newItems, "pending") = todo[c]
        /\ With(newItems, "done") = {} /\ With(newItems, "failed") = {}
    BY <1>2 DEF Present, With
  <2>2. Cardinality({}) = 0
    BY FS_EmptySet
  <2>3. /\ newRow.state = "running" /\ newRow.total = Cardinality(todo[c])
        /\ newRow.done = 0 /\ newRow.failed = 0
    OBVIOUS
  <2>4. todo[c] = {} => ~ (newRow.total > 0)
    BY <2>2, <2>3
  <2> HIDE DEF newRow, newItems
  <2>5. RowExact(newRow, newItems)
    BY <2>1, <2>2, <2>3 DEF RowExact
  <2>6. RowCloses(newRow, newItems)
    BY <2>1, <2>3, <2>4 DEF RowCloses
  <2>7. QED
    BY <2>5, <2>6
<1>10. CountersExact' /\ ClosesWithLastItem'
  <2>1. \A k \in JobIds : RowExact(jobs[k], items[k]) /\ RowCloses(jobs[k], items[k])
    BY RowForm DEF TableInv
  <2>2. \A k \in JobIds : RowExact(jobs'[k], items'[k]) /\ RowCloses(jobs'[k], items'[k])
    BY <1>4, <1>5, <1>9, <2>1
  <2>3. QED
    BY <2>2, RowFormPrime
<1>11. WorkerExclusion'
  <2>1. UNCHANGED workerVars
    BY DEF CreateJob
  <2>2. \A w \in Workers : LocksItem(w) => task[w] \in Tasks /\ task[w][1] # j
    BY <1>2 DEF TableInv, UnusedInv, WorkerExclusion, WorkerInv, LocksItem, TypeOK, Tasks, Unused
  <2>3. \A w \in Workers : LocksItem(w) =>
           /\ items'[task[w][1]] = items[task[w][1]]
           /\ jobs'[task[w][1]] = jobs[task[w][1]]
    BY <1>5, <2>2 DEF Tasks
  <2>4. QED
    BY <2>1, <2>3 DEF WorkerExclusion, RowExclusion, WorkerInv, LocksItem, LocksJob, workerVars
<1>12. QED
  BY <1>7, <1>8, <1>10, <1>11 DEF TableInv

\* Committing a result: one more item is settled, one counter grows by one, and
\* the job closes exactly when that was its last pending item.
LEMMA FinishItemStep ==
    ASSUME TypeOK, StartExclusion, TableInv, WorkerExclusion,
           NEW w \in Workers, FinishItem(w)
    PROVE  StartExclusion' /\ TableInv' /\ WorkerExclusion'
<1> DEFINE j == task[w][1]
           a == task[w][2]
           s == status[w]
           F == items[j]
           G == [F EXCEPT ![a] = s]
           newRow == IF Completed(row[w]) /\ row[w].state = "running"
                     THEN [row[w] EXCEPT !.state = "done"]
                     ELSE row[w]
<1>1. task[w] \in Tasks /\ j \in JobIds /\ a \in Asins /\ wpc[w] = "finish"
  BY DEF FinishItem, TypeOK, Tasks
<1>2. s \in {"done", "failed"} /\ F[a] = "pending" /\ row[w] = Counted(jobs[j], s)
  BY <1>1 DEF WorkerExclusion, WorkerInv, LocksItem, LocksJob
<1>3. F \in [Asins -> ItemState] /\ jobs[j] \in JobRow
  BY <1>1 DEF TypeOK
<1>4. jobs' = [jobs EXCEPT ![j] = newRow] /\ items' = [items EXCEPT ![j] = G]
  BY DEF FinishItem
<1>5. jobs'[j] = newRow /\ items'[j] = G
  BY <1>1, <1>4 DEF TypeOK
<1>6. \A k \in JobIds \ {j} : jobs'[k] = jobs[k] /\ items'[k] = items[k]
  BY <1>4 DEF TypeOK
<1>7. RowExact(jobs[j], F) /\ RowCloses(jobs[j], F)
  BY <1>1, RowForm DEF TableInv
<1>8. jobs[j].state = "running"
  <2>1. a \in With(F, "pending")
    BY <1>1, <1>2 DEF With
  <2>2. jobs[j].state # "done"
    BY <1>7, <2>1 DEF RowCloses
  <2>3. jobs[j].state # "none"
    BY <1>1, <1>2 DEF TableInv, UnusedInv, Unused
  <2>4. QED
    BY <1>3, <2>2, <2>3 DEF JobRow
<1>9. /\ row[w].state = "running" /\ row[w].total = jobs[j].total
      /\ row[w].done = IF s = "done" THEN jobs[j].done + 1 ELSE jobs[j].done
      /\ row[w].failed = IF s = "failed" THEN jobs[j].failed + 1 ELSE jobs[j].failed
      /\ row[w] \in JobRow
  BY <1>2, <1>3, <1>8 DEF Counted, JobRow
<1>10. /\ newRow.state = IF Completed(row[w]) THEN "done" ELSE "running"
       /\ newRow.total = row[w].total /\ newRow.done = row[w].done
       /\ newRow.failed = row[w].failed
  BY <1>9 DEF JobRow
<1>11. /\ Present(G) = Present(F) /\ With(G, "pending") = With(F, "pending") \ {a}
       /\ \A o \in {"done", "failed"} :
            Cardinality(With(G, o)) =
              IF o = s THEN Cardinality(With(F, o)) + 1 ELSE Cardinality(With(F, o))
  BY <1>1, <1>2, <1>3, SettleCounts
<1>12. RowExact(newRow, G)
  BY <1>2, <1>7, <1>9, <1>10, <1>11 DEF RowExact
<1>13. RowCloses(newRow, G)
  <2>1. G \in [Asins -> ItemState]
    BY <1>1, <1>2, <1>3 DEF ItemState
  <2>2. newRow.total = Cardinality(With(G, "pending")) + newRow.done + newRow.failed
    BY <1>12, <2>1, ItemsPartition DEF RowExact
  <2>3. Cardinality(With(G, "pending")) \in Nat /\ newRow.done \in Nat /\ newRow.failed \in Nat
    BY <1>9, <1>10, ItemsFinite DEF JobRow
  <2>4. Completed(row[w]) <=> Cardinality(With(G, "pending")) = 0
    BY <1>10, <2>2, <2>3 DEF Completed
  <2>5. Cardinality(With(G, "pending")) = 0 <=> With(G, "pending") = {}
    BY ItemsFinite, FS_EmptySet
  <2>6. QED
    BY <1>10, <2>4, <2>5 DEF RowCloses
<1>14. CountersExact' /\ ClosesWithLastItem'
  <2>1. \A k \in JobIds : RowExact(jobs[k], items[k]) /\ RowCloses(jobs[k], items[k])
    BY RowForm DEF TableInv
  <2>2. \A k \in JobIds : RowExact(jobs'[k], items'[k]) /\ RowCloses(jobs'[k], items'[k])
    BY <1>5, <1>6, <1>12, <1>13, <2>1
  <2>3. QED
    BY <2>2, RowFormPrime
<1>15. Running' \subseteq Running /\ Unused' = Unused
  <2>1. newRow.state \in {"running", "done"}
    BY <1>10
  <2> HIDE DEF newRow
  <2>2. jobs'[j].state \in {"running", "done"}
    BY <1>5, <2>1
  <2>3. QED
    BY <1>1, <1>6, <1>8, <2>2 DEF Running, Unused
<1>16. UnusedInv' /\ AtMostOneRunning'
  <2>1. j \notin Unused
    BY <1>8 DEF Unused
  <2>2. QED
    BY <1>6, <1>15, <2>1 DEF TableInv, UnusedInv, AtMostOneRunning, Unused, Running
<1>17. StartExclusion'
  BY <1>15 DEF FinishItem, StartExclusion, HoldsStartLock, callerVars
<1>18. WorkerExclusion'
  <2>1. Idle(w)
    BY DEF FinishItem
  <2>2. \A v \in Workers \ {w} : /\ wpc'[v] = wpc[v] /\ task'[v] = task[v]
                                 /\ status'[v] = status[v] /\ row'[v] = row[v]
    BY <2>1 DEF Idle, TypeOK
  <2>3. wpc'[w] = "idle"
    BY <2>1 DEF Idle, TypeOK
  <2>4. ASSUME NEW v \in Workers \ {w}, LocksItem(v)
        PROVE  items'[task[v][1]][task[v][2]] = "pending"
    <3>1. task[v] \in Tasks /\ task[v] # task[w] /\ items[task[v][1]][task[v][2]] = "pending"
      BY <1>1, <2>4 DEF WorkerExclusion, RowExclusion, WorkerInv, LocksItem, TypeOK
    <3>2. CASE task[v][1] = j
      BY <1>1, <1>3, <1>5, <3>1, <3>2 DEF Tasks
    <3>3. CASE task[v][1] # j
      BY <1>6, <3>1, <3>3 DEF Tasks
    <3>4. QED
      BY <3>2, <3>3
  <2>5. ASSUME NEW v \in Workers \ {w}, LocksJob(v)
        PROVE  row[v] = Counted(jobs'[task[v][1]], status[v])
    <3>1. task[v] \in Tasks /\ task[v][1] # j /\ row[v] = Counted(jobs[task[v][1]], status[v])
      BY <1>1, <2>5 DEF WorkerExclusion, RowExclusion, WorkerInv, LocksJob, LocksItem, TypeOK
    <3>2. QED
      BY <1>6, <3>1 DEF Tasks
  <2>6. QED
    BY <2>2, <2>3, <2>4, <2>5 DEF WorkerExclusion, RowExclusion, WorkerInv, LocksItem, LocksJob
<1>19. QED
  BY <1>14, <1>16, <1>17, <1>18 DEF TableInv

-----------------------------------------------------------------------------
(***************************************************************************)
(* Theorems.                                                               *)
(***************************************************************************)
\* RefreshInv is inductive.
LEMMA RefreshInvStep == RefreshInv /\ [Next]_vars => RefreshInv'
<1> SUFFICES ASSUME RefreshInv, [Next]_vars
             PROVE  StartExclusion' /\ TableInv' /\ WorkerExclusion' /\ TypeOK'
  BY DEF RefreshInv, TableInv, WorkerExclusion
<1>1. TypeOK /\ StartExclusion /\ TableInv /\ WorkerExclusion
  BY DEF RefreshInv, TableInv, WorkerExclusion
<1>2. TypeOK'
  BY <1>1, TypeStep
<1> DEFINE Kept == StartExclusion' /\ TableInv' /\ WorkerExclusion'
<1>3. ASSUME UNCHANGED vars PROVE Kept
  BY <1>1, <1>3, StartFrame, TableFrame, WorkerFrame DEF vars
<1>4. ASSUME NEW c \in Callers,
             (Caller(c) /\ ~ CreateJob(c)) \/ CallerFails(c)
      PROVE  Kept
  <2>1. StartExclusion' /\ UNCHANGED <<jobs, items, workerVars>>
    BY <1>1, <1>4, CallerSteps DEF Caller
  <2>2. QED
    BY <1>1, <2>1, TableFrame, WorkerFrame
<1>5. ASSUME NEW c \in Callers, CreateJob(c) PROVE Kept
  BY <1>1, <1>5, CreateJobStep
<1>6. ASSUME NEW w \in Workers,
             (Worker(w) /\ ~ FinishItem(w)) \/ WorkerFails(w)
      PROVE  Kept
  <2>1. WorkerExclusion' /\ UNCHANGED <<jobs, items, callerVars>>
    BY <1>1, <1>6, WorkerSteps DEF Worker
  <2>2. QED
    BY <1>1, <2>1, TableFrame, StartFrame
<1>7. ASSUME NEW w \in Workers, FinishItem(w) PROVE Kept
  BY <1>1, <1>7, FinishItemStep
<1>8. ASSUME (\E S \in SUBSET Asins : RunEtl(S)) \/ (\E t \in Tasks : LoseTask(t))
      PROVE  Kept
  <2>1. UNCHANGED <<jobs, items, callerVars, workerVars>>
    BY <1>8 DEF RunEtl, LoseTask
  <2>2. QED
    BY <1>1, <2>1, StartFrame, TableFrame, WorkerFrame
<1>9. Kept
  BY <1>3, <1>4, <1>5, <1>6, <1>7, <1>8 DEF Next, Environment
<1>10. QED
  BY <1>2, <1>9

\* RefreshInv is inductive, so it holds in every reachable state.
THEOREM RefreshInvariant == Spec => []RefreshInv
<1>1. Init => RefreshInv
  <2> SUFFICES ASSUME Init PROVE RefreshInv
    OBVIOUS
  <2>1. TypeOK
    BY TypeInit
  <2>2. Running = {} /\ \A j \in JobIds : jobs[j] = NoRow
    BY DEF Init, Running, NoRow
  <2>3. StartExclusion /\ RowExclusion /\ WorkerInv
    BY DEF Init, StartExclusion, HoldsStartLock, RowExclusion, WorkerInv, LocksItem, LocksJob
  <2>4. UnusedInv /\ AtMostOneRunning
    BY <2>2 DEF Init, UnusedInv, AtMostOneRunning, Unused
  <2>5. ASSUME NEW j \in JobIds
        PROVE  RowExact(jobs[j], items[j]) /\ RowCloses(jobs[j], items[j])
    <3>1. /\ Present(items[j]) = {} /\ With(items[j], "done") = {}
          /\ With(items[j], "failed") = {}
      BY DEF Init, Present, With
    <3>2. Cardinality({}) = 0
      BY FS_EmptySet
    <3>3. QED
      BY <2>2, <3>1, <3>2 DEF RowExact, RowCloses, NoRow
  <2>6. CountersExact /\ ClosesWithLastItem
    BY <2>5, RowForm
  <2>7. QED
    BY <2>1, <2>3, <2>4, <2>6 DEF RefreshInv
<1>2. QED
  BY <1>1, RefreshInvStep, PTL DEF Spec

\* However many requests and beat triggers race, two refresh jobs never run at once.
THEOREM OneRunningJob == Spec => []AtMostOneRunning
BY RefreshInvariant, PTL DEF RefreshInv

\* The counters that /refresh/status shows are always those of the items.
THEOREM ExactCounters == Spec => []CountersExact
BY RefreshInvariant, PTL DEF RefreshInv

\* A job is closed with its last item: not before, and not left open after it.
THEOREM ClosingTime == Spec => []ClosesWithLastItem
BY RefreshInvariant, PTL DEF RefreshInv

-----------------------------------------------------------------------------
(***************************************************************************)
(* Refinement: creating a job is Open, committing a result is Settle, and  *)
(* every other step leaves the ledger alone.                               *)
(***************************************************************************)
\* Creating a job is the Open of the ledger.
LEMMA CreateJobOpens ==
    ASSUME RefreshInv, NEW c \in Callers, CreateJob(c)
    PROVE  Ledger!LedgerNext
<1>1. PICK j \in Unused :
        /\ jobs' = [jobs EXCEPT ![j] = NewRow(Cardinality(todo[c]))]
        /\ items' = [items EXCEPT ![j] = NewItems(todo[c])]
  BY DEF CreateJob
<1>2. j \in JobIds /\ jobs[j].state = "none"
  BY DEF Unused
<1>3. todo[c] \in SUBSET Asins /\ Running = {} /\ TypeOK
  BY DEF CreateJob, RefreshInv, TypeOK, StartExclusion
<1>4. \A k \in JobIds : jobs'[k].state = IF k = j THEN "running" ELSE jobs[k].state
  BY <1>1, <1>2, <1>3 DEF TypeOK
<1>5. PICK S \in SUBSET Asins : S = todo[c]
  BY <1>3
<1>6. Ledger!Open(j, S)
  <2>1. \A k \in JobIds : [i \in JobIds |-> jobs[i].state][k] # "running"
    BY <1>3 DEF Running
  <2>2. [i \in JobIds |-> jobs'[i].state]
          = [[i \in JobIds |-> jobs[i].state] EXCEPT ![j] = "running"]
    BY <1>2, <1>4
  <2>3. QED
    BY <1>1, <1>2, <1>5, <2>1, <2>2 DEF Ledger!Open
<1>7. QED
  BY <1>2, <1>6 DEF Ledger!LedgerNext

\* Committing a result is the Settle of the ledger.
LEMMA FinishItemSettles ==
    ASSUME RefreshInv, NEW w \in Workers, FinishItem(w)
    PROVE  Ledger!LedgerNext
<1> DEFINE j == task[w][1]
           a == task[w][2]
           s == status[w]
           newRow == IF Completed(row[w]) /\ row[w].state = "running"
                     THEN [row[w] EXCEPT !.state = "done"]
                     ELSE row[w]
<1>1. j \in JobIds /\ a \in Asins /\ wpc[w] = "finish" /\ TypeOK
  BY DEF FinishItem, TypeOK, Tasks, RefreshInv
<1>2. s \in {"done", "failed"} /\ items[j][a] = "pending" /\ row[w] = Counted(jobs[j], s)
  BY <1>1 DEF RefreshInv, WorkerInv, LocksItem, LocksJob
<1>3. /\ jobs' = [jobs EXCEPT ![j] = newRow]
      /\ items' = [items EXCEPT ![j] = [@ EXCEPT ![a] = s]]
  BY DEF FinishItem
<1>4. RefreshInv'
  BY RefreshInvStep DEF Next, Worker
<1>5. jobs[j].state = "running"
  <2>1. a \in ItemsIn(j, "pending")
    BY <1>1, <1>2 DEF ItemsIn
  <2>2. jobs[j].state # "done"
    BY <1>1, <2>1 DEF RefreshInv, ClosesWithLastItem
  <2>3. jobs[j].state # "none"
    BY <1>1, <1>2 DEF RefreshInv, UnusedInv, Unused
  <2>4. QED
    BY <1>1, <2>2, <2>3 DEF TypeOK, JobRow
<1>6. jobs[j] \in JobRow /\ items[j] \in [Asins -> ItemState]
  BY <1>1 DEF TypeOK
<1>7. newRow.state \in {"running", "done"} /\ newRow.total = jobs[j].total
  BY <1>2, <1>5, <1>6 DEF Counted, JobRow
<1>8. jobs[j].total > 0
  <2>1. a \in Present(items[j])
    BY <1>1, <1>2 DEF Present
  <2>2. jobs[j].total = Cardinality(Present(items[j])) /\ IsFiniteSet(Present(items[j]))
    BY <1>1, ItemsFinite DEF RefreshInv, CountersExact, Present
  <2>3. QED
    BY <2>1, <2>2, ItemsFinite, FS_EmptySet
<1> HIDE DEF newRow
<1>9. jobs'[j] = newRow /\ items'[j] = [items[j] EXCEPT ![a] = s]
  BY <1>1, <1>3 DEF TypeOK
<1>10. newRow.state = IF \E b \in Asins \ {a} : items[j][b] = "pending"
                      THEN "running" ELSE "done"
  <2>1. /\ newRow.state = "done" => {b \in Asins : items'[j][b] = "pending"} = {}
        /\ newRow.state = "running" => {b \in Asins : items'[j][b] = "pending"} # {}
    BY <1>1, <1>4, <1>7, <1>8, <1>9 DEF RefreshInv, ClosesWithLastItem, ItemsIn
  <2>2. \A b \in Asins : items'[j][b] = "pending" <=> b # a /\ items[j][b] = "pending"
    BY <1>1, <1>2, <1>6, <1>9
  <2>3. QED
    BY <1>7, <2>1, <2>2
<1>11. PICK k \in JobIds, b \in Asins, o \in {"done", "failed"} : k = j /\ b = a /\ o = s
  BY <1>1, <1>2
<1>12. Ledger!Settle(k, b, o)
  <2>1. [i \in JobIds |-> jobs'[i].state]
          = [[i \in JobIds |-> jobs[i].state] EXCEPT
               ![j] = IF \E other \in Asins \ {a} : items[j][other] = "pending"
                      THEN "running" ELSE "done"]
    BY <1>1, <1>3, <1>9, <1>10 DEF TypeOK
  <2>2. QED
    BY <1>1, <1>2, <1>3, <1>5, <1>11, <2>1 DEF Ledger!Settle
<1>13. QED
  BY <1>12 DEF Ledger!LedgerNext

\* Refresh implements the RefreshLedger.
THEOREM RefreshImplementsLedger == Spec => ImplementsLedger
<1>1. Init => Ledger!LedgerInit
  BY DEF Init, NoRow, Ledger!LedgerInit
<1>2. RefreshInv /\ [Next]_vars => [Ledger!LedgerNext]_(Ledger!ledgerVars)
  <2> SUFFICES ASSUME RefreshInv, [Next]_vars
               PROVE  Ledger!LedgerNext \/ UNCHANGED Ledger!ledgerVars
    OBVIOUS
  <2>1. ASSUME UNCHANGED <<jobs, items>> PROVE UNCHANGED Ledger!ledgerVars
    BY <2>1 DEF Ledger!ledgerVars
  <2>2. CASE \E c \in Callers : CreateJob(c)
    BY <2>2, CreateJobOpens
  <2>3. CASE \E w \in Workers : FinishItem(w)
    BY <2>3, FinishItemSettles
  <2>4. CASE /\ ~ \E c \in Callers : CreateJob(c)
             /\ ~ \E w \in Workers : FinishItem(w)
    <3>1. UNCHANGED <<jobs, items>>
      BY <2>4 DEF Next, Caller, Worker, Environment, vars, StartRefresh, SelectPending,
         SelectCatalog, Enqueue, Return, Receive, Fetch, UpdateItem, BumpCounter,
         RunEtl, CallerFails, WorkerFails, LoseTask
    <3>2. QED
      BY <2>1, <3>1
  <2>5. QED
    BY <2>2, <2>3, <2>4
<1>3. QED
  BY <1>1, <1>2, RefreshInvariant, PTL DEF Spec, ImplementsLedger, Ledger!LedgerSpec

-----------------------------------------------------------------------------
(***************************************************************************)
(* Tasks and items.                                                        *)
(***************************************************************************)
\* TasksHaveItems is not inductive alone: what a caller has still to enqueue must
\* have an item too.
TaskInv ==
    /\ TasksHaveItems
    /\ \A c \in Callers : pc[c] = "enqueue" =>
          \A a \in todo[c] : items[job[c]][a] # "absent"

\* No step takes an item away.
LEMMA ItemsStay ==
    ASSUME RefreshInv, [Next]_vars
    PROVE  \A j \in JobIds, a \in Asins : items[j][a] # "absent" => items'[j][a] # "absent"
<1>1. TypeOK
  BY DEF RefreshInv
<1>2. ASSUME NEW c \in Callers, CreateJob(c)
      PROVE  \A j \in JobIds, a \in Asins : items[j][a] # "absent" => items'[j][a] # "absent"
  BY <1>1, <1>2 DEF CreateJob, RefreshInv, UnusedInv, Unused, TypeOK
<1>3. ASSUME NEW w \in Workers, FinishItem(w)
      PROVE  \A j \in JobIds, a \in Asins : items[j][a] # "absent" => items'[j][a] # "absent"
  <2>1. status[w] \in {"done", "failed"} /\ task[w][1] \in JobIds
    BY <1>1, <1>3 DEF FinishItem, RefreshInv, WorkerInv, TypeOK, Tasks
  <2>2. items' = [items EXCEPT ![task[w][1]] = [@ EXCEPT ![task[w][2]] = status[w]]]
    BY <1>3 DEF FinishItem
  <2>3. QED
    BY <1>1, <2>1, <2>2 DEF TypeOK
<1>4. CASE /\ ~ \E c \in Callers : CreateJob(c)
           /\ ~ \E w \in Workers : FinishItem(w)
  <2>1. UNCHANGED items
    BY <1>4 DEF Next, Caller, Worker, Environment, vars, StartRefresh, SelectPending,
       SelectCatalog, Enqueue, Return, Receive, Fetch, UpdateItem, BumpCounter,
       RunEtl, CallerFails, WorkerFails, LoseTask
  <2>2. QED
    BY <2>1
<1>5. QED
  BY <1>2, <1>3, <1>4

\* A task names an item that exists, in the broker and in the workers.
THEOREM TasksAreBacked == Spec => []TasksHaveItems
<1>1. Init => TaskInv
  BY DEF Init, TaskInv, TasksHaveItems
<1>2. RefreshInv /\ TaskInv /\ [Next]_vars => TaskInv'
  <2> SUFFICES ASSUME RefreshInv, TaskInv, [Next]_vars PROVE TaskInv'
    OBVIOUS
  <2>1. \A j \in JobIds, a \in Asins : items[j][a] # "absent" => items'[j][a] # "absent"
    BY ItemsStay
  <2>2. TypeOK
    BY DEF RefreshInv
  <2> USE DEF TaskInv, TasksHaveItems, Tasks
  <2>3. CASE UNCHANGED <<callerVars, queue, workerVars>>
    BY <2>1, <2>2, <2>3 DEF callerVars, workerVars, TypeOK
  <2>4. ASSUME NEW c \in Callers, Caller(c) PROVE TaskInv'
    <3>1. CASE StartRefresh(c)
      BY <2>1, <2>2, <3>1 DEF StartRefresh, workerVars, TypeOK
    <3>2. CASE SelectPending(c)
      BY <2>2, <3>2 DEF SelectPending, ItemsIn, workerVars, TypeOK
    <3>3. CASE SelectCatalog(c)
      BY <2>1, <2>2, <3>3 DEF SelectCatalog, workerVars, TypeOK
    <3>4. CASE CreateJob(c)
      <4>1. PICK j \in Unused :
              /\ items' = [items EXCEPT ![j] = NewItems(todo[c])]
              /\ job' = [job EXCEPT ![c] = j]
        BY <3>4 DEF CreateJob
      <4>2. /\ UNCHANGED <<todo, queue, workerVars>> /\ pc' = [pc EXCEPT ![c] = "enqueue"]
            /\ j \in JobIds
        BY <3>4 DEF CreateJob, Unused
      <4>3. \A t \in Tasks : queue'[t] > 0 => items'[t[1]][t[2]] # "absent"
        BY <2>1, <2>2, <4>2 DEF TypeOK
      <4>4. \A w \in Workers : wpc'[w] # "idle" => items'[task'[w][1]][task'[w][2]] # "absent"
        BY <2>1, <2>2, <4>2 DEF TypeOK, workerVars
      <4>5. \A d \in Callers : pc'[d] = "enqueue" =>
               \A a \in todo'[d] : items'[job'[d]][a] # "absent"
        BY <2>1, <2>2, <4>1, <4>2 DEF TypeOK
      <4>6. QED
        BY <4>3, <4>4, <4>5
    <3>5. ASSUME NEW a \in Asins, Enqueue(c, a) PROVE TaskInv'
      BY <2>2, <3>5 DEF Enqueue, workerVars, TypeOK
    <3>6. CASE Return(c)
      BY <2>2, <3>6 DEF Return, workerVars, TypeOK
    <3>7. QED
      BY <2>4, <3>1, <3>2, <3>3, <3>4, <3>5, <3>6 DEF Caller
  <2>5. ASSUME NEW w \in Workers, Worker(w) \/ WorkerFails(w) PROVE TaskInv'
    <3>1. ASSUME NEW t \in Tasks, Receive(w, t) PROVE TaskInv'
      BY <2>2, <3>1 DEF Receive, callerVars, TypeOK
    <3>2. CASE Fetch(w)
      BY <2>2, <3>2 DEF Fetch, callerVars, TypeOK
    <3>3. CASE Idle(w) /\ UNCHANGED <<callerVars, queue>>
      BY <2>1, <2>2, <3>3 DEF Idle, callerVars, TypeOK
    <3>4. CASE /\ wpc' = [wpc EXCEPT ![w] = "counter"]
               /\ UNCHANGED <<task, callerVars, queue, items>> /\ wpc[w] = "item"
      BY <2>2, <3>4 DEF callerVars, TypeOK
    <3>5. CASE BumpCounter(w)
      BY <2>2, <3>5 DEF BumpCounter, callerVars, TypeOK
    <3>6. QED
      BY <2>5, <3>1, <3>2, <3>3, <3>4, <3>5 DEF Worker, UpdateItem, FinishItem, WorkerFails
  <2>6. CASE \E S \in SUBSET Asins : RunEtl(S)
    BY <2>3, <2>6 DEF RunEtl
  <2>7. ASSUME NEW c \in Callers, CallerFails(c) PROVE TaskInv'
    BY <2>2, <2>7 DEF CallerFails, workerVars, TypeOK
  <2>8. ASSUME NEW t \in Tasks, LoseTask(t) PROVE TaskInv'
    BY <2>2, <2>8 DEF LoseTask, callerVars, workerVars, TypeOK
  <2>9. CASE UNCHANGED vars
    BY <2>3, <2>9 DEF vars
  <2>10. QED
    BY <2>4, <2>5, <2>6, <2>7, <2>8, <2>9 DEF Next, Environment
<1>3. TaskInv => TasksHaveItems
  BY DEF TaskInv
<1>4. QED
  BY <1>1, <1>2, <1>3, RefreshInvariant, PTL DEF Spec

\* Without failures every pending item has somebody on the way to settle it.
THEOREM NothingForgotten == Spec => []PendingIsCarried
<1>1. Init => PendingIsCarried
  BY DEF Init, PendingIsCarried, ItemsIn
<1>2. RefreshInv /\ PendingIsCarried /\ [Next]_vars => PendingIsCarried'
  <2> SUFFICES ASSUME RefreshInv, PendingIsCarried, [Next]_vars, faults' = 0,
                      NEW j \in JobIds, NEW a \in Asins, items'[j][a] = "pending"
               PROVE  Carried(j, a)'
    BY DEF PendingIsCarried, ItemsIn
  <2>1. TypeOK
    BY DEF RefreshInv
  <2>2. faults = 0 => (items[j][a] = "pending" => Carried(j, a))
    BY DEF PendingIsCarried, ItemsIn
  <2> USE DEF Carried, Tasks
  <2>3. CASE UNCHANGED vars
    BY <2>2, <2>3 DEF vars, callerVars, workerVars
  <2>4. ASSUME NEW c \in Callers, Caller(c) PROVE Carried(j, a)'
    <3>1. faults = 0
      BY <2>4 DEF Caller, StartRefresh, SelectPending, SelectCatalog, CreateJob, Enqueue, Return
    <3>2. CASE StartRefresh(c)
      BY <2>1, <2>2, <3>1, <3>2 DEF StartRefresh, workerVars, TypeOK
    <3>3. CASE SelectPending(c)
      BY <2>1, <2>2, <3>1, <3>3 DEF SelectPending, workerVars, TypeOK
    <3>4. CASE SelectCatalog(c)
      BY <2>1, <2>2, <3>1, <3>4 DEF SelectCatalog, workerVars, TypeOK
    <3>5. CASE CreateJob(c)
      <4>1. PICK k \in Unused :
              /\ items' = [items EXCEPT ![k] = NewItems(todo[c])]
              /\ job' = [job EXCEPT ![c] = k]
        BY <3>5 DEF CreateJob
      <4>2. /\ UNCHANGED <<todo, queue, workerVars>> /\ pc' = [pc EXCEPT ![c] = "enqueue"]
            /\ pc[c] = "create" /\ k \in JobIds
        BY <3>5 DEF CreateJob, Unused
      <4>3. CASE j = k
        BY <2>1, <4>1, <4>2, <4>3 DEF TypeOK
      <4>4. CASE j # k
        BY <2>1, <2>2, <3>1, <4>1, <4>2, <4>4 DEF TypeOK, workerVars
      <4>5. QED
        BY <4>3, <4>4
    <3>6. ASSUME NEW b \in Asins, Enqueue(c, b) PROVE Carried(j, a)'
      BY <2>1, <2>2, <3>1, <3>6 DEF Enqueue, workerVars, TypeOK
    <3>7. CASE Return(c)
      BY <2>1, <2>2, <3>1, <3>7 DEF Return, workerVars, TypeOK
    <3>8. QED
      BY <2>4, <3>2, <3>3, <3>4, <3>5, <3>6, <3>7 DEF Caller
  <2>5. ASSUME NEW w \in Workers, Worker(w) PROVE Carried(j, a)'
    <3>1. faults = 0
      BY <2>5 DEF Worker, Receive, Fetch, UpdateItem, BumpCounter, FinishItem
    <3>2. ASSUME NEW t \in Tasks, Receive(w, t) PROVE Carried(j, a)'
      BY <2>1, <2>2, <3>1, <3>2 DEF Receive, callerVars, TypeOK
    <3>3. CASE Fetch(w)
      BY <2>1, <2>2, <3>1, <3>3 DEF Fetch, callerVars, TypeOK
    <3>4. CASE UpdateItem(w)
      <4>1. UNCHANGED <<items, callerVars, queue>>
        BY <3>4 DEF UpdateItem
      <4>2. CASE wpc' = [wpc EXCEPT ![w] = "counter"] /\ UNCHANGED task
        BY <2>1, <2>2, <3>1, <4>1, <4>2 DEF callerVars, TypeOK
      <4>3. CASE Idle(w) /\ items[task[w][1]][task[w][2]] # "pending"
        <5>1. ~ (task[w] = <<j, a>>)
          BY <4>1, <4>3
        <5>2. QED
          BY <2>1, <2>2, <3>1, <4>1, <4>3, <5>1 DEF Idle, callerVars, TypeOK
      <4>4. QED
        BY <3>4, <4>2, <4>3 DEF UpdateItem
    <3>5. CASE BumpCounter(w)
      BY <2>1, <2>2, <3>1, <3>5 DEF BumpCounter, callerVars, TypeOK
    <3>6. CASE FinishItem(w)
      <4>1. /\ items' = [items EXCEPT ![task[w][1]] = [@ EXCEPT ![task[w][2]] = status[w]]]
            /\ Idle(w) /\ UNCHANGED <<callerVars, queue>>
        BY <3>6 DEF FinishItem
      <4>2. status[w] \in {"done", "failed"} /\ task[w] \in Tasks
        BY <2>1, <3>6 DEF FinishItem, RefreshInv, WorkerInv, TypeOK
      <4>3. task[w] # <<j, a>> /\ items[j][a] = "pending"
        BY <2>1, <4>1, <4>2 DEF TypeOK
      <4>4. QED
        BY <2>1, <2>2, <3>1, <4>1, <4>3 DEF Idle, callerVars, TypeOK
    <3>7. QED
      BY <2>5, <3>2, <3>3, <3>4, <3>5, <3>6 DEF Worker
  <2>6. CASE \E S \in SUBSET Asins : RunEtl(S)
    BY <2>2, <2>6 DEF RunEtl, callerVars, workerVars
  <2>7. ~ Fault
    BY <2>1 DEF Fault, TypeOK
  <2>8. QED
    BY <2>3, <2>4, <2>5, <2>6, <2>7 DEF Next, Environment, CallerFails, WorkerFails, LoseTask
<1>3. QED
  BY <1>1, <1>2, RefreshInvariant, PTL DEF Spec
=============================================================================
