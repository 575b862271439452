------------------------------ MODULE Catalog ------------------------------
(***************************************************************************)
(* The rows of asins and asin_price_stats and the processes that write     *)
(* them through app/ingest.py: runs of app.etl over the whole CSV          *)
(* (fetch_and_upsert_batch) and tasks of refresh workers over one ASIN     *)
(* (refresh_one_asin up to its commit, fetch_and_upsert_asin).  What       *)
(* happens to the task and its job afterwards is in Refresh, the requests  *)
(* to Keepa are in KeepaClient: here Keepa gives any answer.               *)
(*                                                                         *)
(* A transaction reads what is committed when a statement begins, keeps    *)
(* its writes to itself and holds the lock of every row it has written.    *)
(***************************************************************************)
EXTENDS KeepaParse

CONSTANTS
    Asins,
    Products,   \* products Keepa may answer with
    Now,        \* keepa minutes at the time of the answers
    Csvs,       \* contents sample_asins.csv may have: asin -> cost or None
    CsvOrder,   \* the keys of each in the order of its lines
    Etls,       \* runs of app.etl
    Workers,    \* tasks of refresh workers
    Missing     \* a row there is not, an ASIN Keepa does not know

Writers == Etls \cup Workers

ASSUME CatalogAssumption ==
    /\ Etls \cap Workers = {}
    /\ \A csv \in Csvs : DOMAIN csv \subseteq Asins /\ csv \in [DOMAIN csv -> Int \cup {None}]
    /\ CsvOrder \in [Csvs -> Seq(Asins)]
    /\ \A csv \in Csvs : \A i, j \in DOMAIN CsvOrder[csv] :
          /\ CsvOrder[csv][i] \in DOMAIN csv
          /\ CsvOrder[csv][i] = CsvOrder[csv][j] => i = j
    /\ \A product \in Products : NumberOfItems(product) \in Int \cup {None}
    /\ Missing \notin Products /\ None \notin Writers /\ None \notin Int

VARIABLES
    rows,       \* asins as committed
    stats,      \* asin_price_stats as committed
    lock,       \* the writer that holds each row, or None
    pc,
    costs,      \* asin_supplier_costs of each writer
    response,   \* what Keepa answered it
    todo,       \* ASINs it has still to process
    own,        \* its uncommitted rows and stats
    results,    \* the status it reports of each ASIN
    etlCost,    \* history: the cost of the last committed ETL run
    etlRuns,    \* history: how many have written the row
    seenRuns,   \* history: how many had when a worker read the cost
    overtaken   \* history: a worker has put back a cost from before the last run

vars == <<rows, stats, lock, pc, costs, response, todo, own, results,
          etlCost, etlRuns, seenRuns, overtaken>>

Empty == [a \in {} |-> None]

Init ==
    /\ rows = [a \in Asins |-> Missing]
    /\ stats = [a \in Asins |-> Missing]
    /\ lock = [a \in Asins |-> None]
    /\ pc = [w \in Writers |-> "idle"]
    /\ costs = [w \in Writers |-> Empty]
    /\ response = [w \in Writers |-> Empty]
    /\ todo = [w \in Writers |-> <<>>]
    /\ own = [w \in Writers |-> Empty]
    /\ results = [w \in Writers |-> Empty]
    /\ etlCost = [a \in Asins |-> None]
    /\ etlRuns = [a \in Asins |-> 0]
    /\ seenRuns = [w \in Workers |-> 0]
    /\ overtaken = {}

history == <<etlCost, etlRuns, overtaken>>

(***************************************************************************)
(* One product.                                                            *)
(***************************************************************************)
Parsed(product) ==
    [buybox |-> SafeValue(StatsField(product.current)),
     referral |-> Referral(product),
     rank |-> SafeValue(StatsField(product.rank)),
     amazon |-> AmazonShare(product.history, Now),
     sold |-> SafeValue(product.monthlySold)]

\* Faulty variant: the verdict waits for the cost.
WithCost(raw, cost) == IF cost = None THEN "cost" ELSE Failed(raw)
Verdict(raw, cost) == Failed(raw)

RowOf(product, cost) ==
    LET raw == Parsed(product) IN
    [raw |-> raw,
     failed |-> Verdict(raw, cost),
     roi |-> RoiOf(raw.buybox, raw.referral, SafeValue(product.pickAndPackFee), cost,
                   NumberOfItems(product)),
     cost |-> cost]

StatsOf(product) ==
    LET buybox == SafeValue(StatsField(product.current))
        avg == SafeValue(StatsField(product.avg90))
    IN  [avg |-> avg,
         min |-> SafeValue(StatsField(product.min90)),
         deviation |-> Deviation(buybox, avg)]

\* The costs a row can have.
Cost == {None} \cup UNION {{csv[a] : a \in DOMAIN csv} : csv \in Csvs}

ASSUME MissingIsNoRow ==
    \A product \in Products : \A cost \in Cost :
        Missing \notin {RowOf(product, cost), StatsOf(product)}

(***************************************************************************)
(* The writers.                                                            *)
(***************************************************************************)
\* run_etl reads the CSV.
EtlStart(e) ==
    /\ pc[e] = "idle"
    /\ \E csv \in Csvs :
         /\ costs' = [costs EXCEPT ![e] = csv]
         /\ todo' = [todo EXCEPT ![e] = CsvOrder[csv]]
    /\ pc' = [pc EXCEPT ![e] = "fetch"]
    /\ UNCHANGED <<rows, stats, lock, response, own, results, seenRuns, history>>

\* Faulty variant: a refresh knows no cost.
NoCost(row) == None
CostOf(row) == row.cost

\* A task is for an ASIN of the catalog: it reads the cost its row has now.
WorkerStart(w, a) ==
    /\ pc[w] = "idle" /\ rows[a] # Missing
    /\ costs' = [costs EXCEPT ![w] = [b \in {a} |-> CostOf(rows[a])]]
    /\ todo' = [todo EXCEPT ![w] = <<a>>]
    /\ seenRuns' = [seenRuns EXCEPT ![w] = etlRuns[a]]
    /\ pc' = [pc EXCEPT ![w] = "fetch"]
    /\ UNCHANGED <<rows, stats, lock, response, own, results, history>>

\* The function returns or dies with its locals; what it reports stays.
Leaves(w, how) ==
    /\ pc' = [pc EXCEPT ![w] = how]
    /\ costs' = [costs EXCEPT ![w] = Empty]
    /\ response' = [response EXCEPT ![w] = Empty]
    /\ todo' = [todo EXCEPT ![w] = <<>>]
    /\ own' = [own EXCEPT ![w] = Empty]

Fetch(w) ==
    /\ pc[w] = "fetch"
    /\ \E answer \in [DOMAIN costs[w] -> Products \cup {Missing}] :
         response' = [response EXCEPT ![w] = answer]
    /\ pc' = [pc EXCEPT ![w] = "process"]
    /\ UNCHANGED <<rows, stats, lock, costs, todo, own, results, seenRuns, history>>

\* get_products raises: one error for everything, nothing is written.
FetchFails(w) ==
    /\ pc[w] = "fetch"
    /\ results' = [results EXCEPT ![w] = [a \in DOMAIN costs[w] |-> "error"]]
    /\ Leaves(w, "done")
    /\ UNCHANGED <<rows, stats, lock, seenRuns, history>>

Reports(w, a, status) ==
    /\ results' = [results EXCEPT ![w] = [b \in {a} \cup DOMAIN @ |->
                                            IF b = a THEN status ELSE @[b]]]
    /\ todo' = [todo EXCEPT ![w] = Tail(@)]

IsNext(w, a) == pc[w] = "process" /\ todo[w] # <<>> /\ a = Head(todo[w])

NotFound(w, a) ==
    /\ IsNext(w, a) /\ response[w][a] = Missing
    /\ Reports(w, a, "not_found")
    /\ UNCHANGED <<rows, stats, lock, pc, costs, response, own, seenRuns, history>>

Written(w, a, row, stat) ==
    [b \in {a} \cup DOMAIN own[w] |-> IF b = a THEN <<row, stat>> ELSE own[w][b]]

\* _process_product: both upserts, in a savepoint, once the row is free.
Upsert(w, a) ==
    /\ IsNext(w, a) /\ response[w][a] # Missing
    /\ lock[a] \in {None, w}
    /\ own' = [own EXCEPT ![w] = Written(w, a, RowOf(response[w][a], costs[w][a]),
                                               StatsOf(response[w][a]))]
    /\ lock' = [lock EXCEPT ![a] = w]
    /\ Reports(w, a, "ok")
    /\ UNCHANGED <<rows, stats, pc, costs, response, seenRuns, history>>

\* Faulty variant: no savepoint; the first upsert stays when the second fails.
HalfWritten(w, a) == Written(w, a, RowOf(response[w][a], costs[w][a]), stats[a])
RolledBack(w, a) == own[w]

\* Anything in _process_product raises: the savepoint is rolled back.
ProcessFails(w, a) ==
    /\ IsNext(w, a) /\ response[w][a] # Missing
    /\ own' = [own EXCEPT ![w] = RolledBack(w, a)]
    /\ Reports(w, a, "error")
    /\ UNCHANGED <<rows, stats, lock, pc, costs, response, seenRuns, history>>

Unlocked(w) == [a \in Asins |-> IF lock[a] = w THEN None ELSE lock[a]]

Commit(w) ==
    /\ pc[w] = "process" /\ todo[w] = <<>>
    /\ rows' = [a \in Asins |-> IF a \in DOMAIN own[w] THEN own[w][a][1] ELSE rows[a]]
    /\ stats' = [a \in Asins |-> IF a \in DOMAIN own[w] THEN own[w][a][2] ELSE stats[a]]
    /\ lock' = Unlocked(w)
    /\ Leaves(w, "done")
    /\ IF w \in Etls
         THEN /\ etlCost' = [a \in Asins |->
                               IF a \in DOMAIN own[w] THEN costs[w][a] ELSE etlCost[a]]
              /\ etlRuns' = [a \in Asins |->
                               IF a \in DOMAIN own[w] THEN etlRuns[a] + 1 ELSE etlRuns[a]]
              /\ overtaken' = overtaken \ DOMAIN own[w]
         ELSE /\ overtaken' = overtaken \cup
                                {a \in DOMAIN own[w] : seenRuns[w] # etlRuns[a]}
              /\ UNCHANGED <<etlCost, etlRuns>>
    /\ UNCHANGED <<results, seenRuns>>

\* The process dies, or the commit fails: the transaction is rolled back and
\* nothing is reported.
Crash(w) ==
    /\ pc[w] \in {"fetch", "process"}
    /\ lock' = Unlocked(w)
    /\ results' = [results EXCEPT ![w] = Empty]
    /\ Leaves(w, "crashed")
    /\ UNCHANGED <<rows, stats, seenRuns, history>>

Next ==
    \/ \E e \in Etls : EtlStart(e)
    \/ \E w \in Workers, a \in Asins : WorkerStart(w, a)
    \/ \E w \in Writers :
         \/ Fetch(w)
         \/ FetchFails(w)
         \/ \E a \in Asins : NotFound(w, a) \/ Upsert(w, a) \/ ProcessFails(w, a)
         \/ Commit(w)
         \/ Crash(w)

Spec == Init /\ [][Next]_vars

(***************************************************************************)
(* What /eligibility serves: the verdict computed again from the row's raw *)
(* numbers, the ROI as stored, a note when the price is off its average.   *)
(***************************************************************************)
Serialize(row, stat) ==
    [failed |-> Failed(row.raw), roi |-> row.roi, cost |-> row.cost,
     anomaly |-> stat # Missing /\ IsAnomaly(row.raw.buybox, stat.avg)]

(***************************************************************************)
(* Properties.                                                             *)
(***************************************************************************)
\* Whoever wrote last, and whatever failed half-way: the two rows of an ASIN come
\* from the same product, the stored verdict, which filters use, is the one
\* /eligibility serves, a price flagged as an anomaly has a stored deviation that
\* says so, and an ROI is only there with a price and a cost to compute it from.
RowsAgree ==
    \A a \in Asins :
        /\ rows[a] = Missing <=> stats[a] = Missing
        /\ rows[a] # Missing =>
             LET served == Serialize(rows[a], stats[a]) IN
             /\ served.failed = rows[a].failed
             /\ stats[a].deviation = Deviation(rows[a].raw.buybox, stats[a].avg)
             /\ served.roi # None =>
                  rows[a].raw.buybox # None /\ served.cost # None /\ served.cost > 0

\* A row has the cost of the last ETL run that wrote it, through any number of
\* refreshes, unless a worker had read the cost before that run was committed and
\* wrote it back afterwards.
CostFromCsv ==
    \A a \in Asins \ overtaken : rows[a] # Missing => rows[a].cost = etlCost[a]

\* Rows change with the commit of a writer that reports them "ok", and with it they
\* hold what Keepa answered that writer; "not_found" and "error" leave the last
\* known row alone, and a run that dies leaves all of them.
ReportIsTrue ==
    [][/\ \A a \in Asins : rows'[a] # rows[a] \/ stats'[a] # stats[a] =>
            \E w \in Writers : pc'[w] # pc[w] /\ a \in DOMAIN results[w] /\ results[w][a] = "ok"
       /\ \A w \in Writers : pc[w] = "process" /\ pc'[w] = "done" =>
            \A a \in DOMAIN results[w] : results[w][a] = "ok" =>
               /\ rows'[a] = RowOf(response[w][a], costs[w][a])
               /\ stats'[a] = StatsOf(response[w][a])]_vars
=============================================================================
