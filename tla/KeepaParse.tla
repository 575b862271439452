----------------------------- MODULE KeepaParse -----------------------------
(***************************************************************************)
(* What the ingest computes from one product of Keepa's answer: the        *)
(* extractors of app/keepa/parse.py, the rules and the ROI formula of      *)
(* app/eligibility.py, the deviation of app/ingest.py.                     *)
(*                                                                         *)
(* Money is in cents and a percentage or ROI is an exact fraction          *)
(* <<numerator, denominator>> where the code has floats.  An entry of a    *)
(* stats array is <<>> (missing), <<value>> or a pair <<time, value>>; a   *)
(* field a product lacks is None.                                          *)
(***************************************************************************)
EXTENDS Integers, Sequences, FiniteSets

CONSTANTS Amazon, None

\* Keepa's -1 is "no data".
SafeValue(raw) == IF raw = -1 THEN None ELSE raw

StatsField(entry) == IF entry = <<>> THEN None ELSE entry[Len(entry)]

\* The newer field when the product has it, even with -1, else the older one.
Preferred(product, newer, older) ==
    SafeValue(product[IF newer \in DOMAIN product THEN newer ELSE older])
Referral(product) == Preferred(product, "referralFeePercentage", "referralFeePercent")
NumberOfItems(product) == Preferred(product, "numberOfItems", "packageQuantity")

\* Items in a package: 1 when unknown or 0.
Units(n) == IF n = None \/ n < 1 THEN 1 ELSE n

(***************************************************************************)
(* Amazon's share of the BuyBox.  history is a sequence of pairs           *)
(* <<minute, seller>>; a minute that is no number is None and skipped.     *)
(***************************************************************************)
Readable(history) == {i \in DOMAIN history : history[i][1] # None}

\* In time order; of two entries of one minute the later listed comes second, so
\* the first lasts no time.
Precedes(history, i, j) ==
    \/ history[i][1] < history[j][1]
    \/ history[i][1] = history[j][1] /\ i < j

EndOf(history, i, now) ==
    LET later == {history[j][1] : j \in {j \in Readable(history) : Precedes(history, i, j)}}
    IN  IF later = {} THEN now ELSE CHOOSE t \in later : \A u \in later : t <= u

\* The minutes for which an entry holds the box: up to the next entry, or to now for
\* the last, and none when it ends before it begins.
Segment(history, i, now) == {<<i, m>> : m \in history[i][1] .. EndOf(history, i, now) - 1}
Held(history, entries, now) == UNION {Segment(history, i, now) : i \in entries}

AmazonShare(history, now) ==
    LET byAmazon == {i \in Readable(history) : history[i][2] = Amazon}
        total == Cardinality(Held(history, Readable(history), now))
    IN  IF Cardinality(Readable(history)) < 2 \/ total = 0 THEN None
        ELSE <<100 * Cardinality(Held(history, byAmazon, now)), total>>

(***************************************************************************)
(* check_eligibility: five rules in order, the first that fails is named.  *)
(***************************************************************************)
Rules == <<"referral_fee_pct", "rank", "buybox", "amazon_pct", "monthly_sold">>

Passes(rule, row) ==
    CASE rule = "referral_fee_pct" -> row.referral # None /\ row.referral > 0
      [] rule = "rank" -> \/ row.rank # None /\ row.rank <= 100000
                          \/ row.sold # None /\ row.sold >= 100
      [] rule = "buybox" -> row.buybox # None /\ row.buybox >= 1000
      [] rule = "amazon_pct" -> row.amazon = None \/ row.amazon[1] <= 80 * row.amazon[2]
      [] rule = "monthly_sold" -> row.sold = None \/ row.sold >= 100

Failed(row) ==
    LET failing == {i \in DOMAIN Rules : ~Passes(Rules[i], row)}
    IN  IF failing = {} THEN None
        ELSE Rules[CHOOSE i \in failing : \A j \in failing : i <= j]

\* compute_payout in hundredths of a cent, 50 cents of storage included.
Payout(buybox, referral, fba) == 100 * buybox - buybox * referral - 100 * fba - 5000

Roi(buybox, referral, fba, supplierCost, n) ==
    LET cost == 100 * supplierCost * Units(n)
    IN  IF cost <= 0 THEN None
        ELSE <<100 * (Payout(buybox, referral, fba) - cost), cost>>

\* The ROI is unknown when any number it needs is.
RoiOf(buybox, referral, fba, supplierCost, n) ==
    IF None \in {buybox, referral, fba, supplierCost} THEN None
    ELSE Roi(buybox, referral, fba, supplierCost, n)

\* 100 * (buybox - avg) / avg, unknown without an average or with 0 for one.
Deviation(buybox, avg) ==
    IF buybox = None \/ avg \in {None, 0} THEN None ELSE <<100 * (buybox - avg), avg>>

\* is_price_anomaly: more than 30 percent off the average.
IsAnomaly(buybox, avg) ==
    /\ buybox # None /\ avg \notin {None, 0}
    /\ \/ 100 * (buybox - avg) > 30 * avg
       \/ 100 * (avg - buybox) > 30 * avg
=============================================================================
