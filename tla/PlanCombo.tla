----------------------------- MODULE PlanCombo -----------------------------
(***************************************************************************)
(* The combo planner of app/agent/tools.py: plan_combo_impl collects the   *)
(* candidates, plan_combo_from_candidates spends the budget on them, here  *)
(* one loop iteration at a time.                                           *)
(*                                                                         *)
(* Money is an integer number of units, Cent of them to a cent: costs and  *)
(* budgets are Decimals of any precision, subtotals are rounded to cents.  *)
(***************************************************************************)
EXTENDS Integers, Sequences, FiniteSets, Functions

CONSTANTS
    Asins,      \* numbers in the order of the ASINs they stand for
    Roi,        \* computed_roi_pct of each ASIN, or None
    Eligible,   \* ASINs whose row has eligible = true
    Costs,      \* values of supplier_cost; 0 stands for NULL too
    Categories,
    Budgets,    \* budgets that may be given, negative ones too
    Cent,
    None

ASSUME PlanAssumption ==
    /\ Asins \subseteq Nat /\ IsFiniteSet(Asins) /\ Eligible \subseteq Asins
    /\ Roi \in [Asins -> Int \cup {None}] /\ None \notin Int
    /\ Costs \subseteq Int
    /\ Budgets \subseteq Int
    /\ Cent \in Nat \ {0}

VARIABLES
    cost,       \* supplier_cost of each row
    category,   \* infer_category of each row: a hash of its title
    excluded,   \* the user's exclusions
    budget,
    diversify,  \* diversify_categories
    candidates, \* ASINs in the order they are considered
    phase,
    i,          \* the candidate the loop is at
    remaining,
    qty,        \* units of each ASIN picked
    subtotal,   \* what they cost, in whole cents
    seen        \* seen_categories

inputs == <<cost, category, excluded, budget, diversify, candidates>>
vars == <<inputs, phase, i, remaining, qty, subtotal, seen>>

\* The sort key: ROI descending, no ROI last, then the ASIN.
Before(a, b) ==
    \/ Roi[a] # None /\ Roi[b] = None
    \/ Roi[a] # None /\ Roi[b] # None /\ Roi[a] > Roi[b]
    \/ Roi[a] = Roi[b] /\ a < b

Orderings(S) ==
    {s \in [1 .. Cardinality(S) -> S] :
       \A j, k \in 1 .. Cardinality(S) : j < k => Before(s[j], s[k])}

\* Eligible rows with a cost that are not excluded.
Candidates(costs, out) == {a \in Eligible \ out : costs[a] > 0}

Init ==
    /\ cost \in [Asins -> Costs]
    /\ category \in [Asins -> Categories]
    /\ excluded \in SUBSET Asins
    /\ budget \in Budgets
    /\ diversify \in BOOLEAN
    /\ candidates \in Orderings(Candidates(cost, excluded))
    /\ phase = IF diversify THEN "diversify" ELSE "fill"
    /\ i = 1
    /\ remaining = IF budget < 0 THEN 0 ELSE budget
    /\ qty = [a \in Asins |-> 0]
    /\ subtotal = [a \in Asins |-> 0]
    /\ seen = {}

\* Decimal.quantize("0.01"): to the nearest cent, a tie to the even one.
Quantize(x) ==
    LET down == x \div Cent
        rest == x % Cent
        up == 2 * rest > Cent \/ (2 * rest = Cent /\ down % 2 = 1)
    IN  Cent * IF up THEN down + 1 ELSE down

\* _add
Add(a, n) ==
    LET sub == Quantize(cost[a] * n)
    IN  /\ qty' = [qty EXCEPT ![a] = @ + n]
        /\ subtotal' = [subtotal EXCEPT ![a] = @ + sub]
        /\ remaining' = remaining - sub

\* Faulty variant: a category is taken as seen at its first candidate.
FirstOnly(a) == \A j \in 1 .. i - 1 : category[candidates[j]] # category[a]
Unseen(a) == category[a] \notin seen

\* Faulty variant: the price of a candidate is not compared with what is left.
Priced(a) == cost[a] > 0
Affordable(a) == cost[a] > 0 /\ cost[a] <= remaining

\* Phase 1: one unit of the first affordable candidate of each category.
DiversifyStep ==
    /\ phase = "diversify" /\ i \in DOMAIN candidates
    /\ LET a == candidates[i] IN
       \/ /\ Unseen(a) /\ Affordable(a)
          /\ Add(a, 1)
          /\ seen' = seen \cup {category[a]}
       \/ /\ ~(Unseen(a) /\ Affordable(a))
          /\ UNCHANGED <<remaining, qty, subtotal, seen>>
    /\ i' = i + 1
    /\ UNCHANGED <<inputs, phase>>

EndDiversify ==
    /\ phase = "diversify" /\ i \notin DOMAIN candidates
    /\ phase' = "fill" /\ i' = 1
    /\ UNCHANGED <<inputs, remaining, qty, subtotal, seen>>

\* Faulty variant: one unit of each.
OneUnit(a) == 1
Fitting(a) == remaining \div cost[a]

\* Phase 2: as many units of each candidate as fit.
FillStep ==
    /\ phase = "fill" /\ i \in DOMAIN candidates
    /\ LET a == candidates[i] IN
       \/ Affordable(a) /\ Add(a, Fitting(a))
       \/ ~Affordable(a) /\ UNCHANGED <<remaining, qty, subtotal>>
    /\ i' = i + 1
    /\ UNCHANGED <<inputs, phase, seen>>

Finish ==
    /\ phase = "fill" /\ i \notin DOMAIN candidates
    /\ phase' = "done"
    /\ UNCHANGED <<inputs, i, remaining, qty, subtotal, seen>>

Next == DiversifyStep \/ EndDiversify \/ FillStep \/ Finish

Spec == Init /\ [][Next]_vars

(***************************************************************************)
(* Properties.                                                             *)
(***************************************************************************)
TypeOK ==
    /\ cost \in [Asins -> Costs]
    /\ category \in [Asins -> Categories]
    /\ budget \in Budgets /\ diversify \in BOOLEAN
    /\ candidates \in Seq({a \in Eligible \ excluded : cost[a] > 0})
    /\ phase \in {"diversify", "fill", "done"}
    /\ i \in 1 .. Len(candidates) + 1
    /\ remaining \in Int
    /\ qty \in [Asins -> Nat]
    /\ subtotal \in [Asins -> Int]
    /\ seen \subseteq Categories

Purse == IF budget < 0 THEN 0 ELSE budget

\* "Stays within budget", which the rounding of subtotals bends: the combo costs what
\* its items cost, and all its roundings together overdraw the budget by half a cent
\* at most, since nothing more is bought once the budget is overdrawn.
WithinBudget ==
    LET total == SumFunction(subtotal) IN
    /\ total + remaining = Purse
    /\ total % Cent = 0
    /\ 2 * (total - Purse) <= Cent

\* Phase 2 "fills the remaining budget": of no candidate, also one passed in phase 1
\* or rounded in the buyer's favour, does a finished plan leave the price of a unit
\* and half a cent.
BudgetUsedUp ==
    phase = "done" =>
        \A j \in DOMAIN candidates : 2 * remaining <= 2 * cost[candidates[j]] + Cent

\* Phase 1 spreads over the categories: when phase 2 begins, a category without a
\* unit is one none of whose candidates what is left could buy, though each was
\* passed when more was left, and no category has two.
EveryCategoryThatFits ==
    phase = "fill" /\ i = 1 /\ diversify =>
        /\ \A j \in DOMAIN candidates :
              category[candidates[j]] \in seen \/ cost[candidates[j]] > remaining
        /\ \A a, b \in Asins :
              qty[a] > 0 /\ qty[b] > 0 /\ category[a] = category[b] => a = b /\ qty[a] = 1
=============================================================================
