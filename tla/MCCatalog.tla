----------------------------- MODULE MCCatalog -----------------------------
(***************************************************************************)
(* A small instance of Catalog: two runs of the ETL, between which the CSV *)
(* may change, and two refresh workers; a full product and one with hardly *)
(* a number.  Runs are alike, and so are workers.                          *)
(***************************************************************************)
EXTENDS Catalog, TLC

CONSTANTS a, b, shop, e1, e2, w1, w2

Full == [current |-> <<2500>>, rank |-> <<200000>>, avg90 |-> <<1800>>, min90 |-> <<5, 1500>>,
         history |-> <<<<4, shop>>, <<0, Amazon>>, <<None, shop>>>>, monthlySold |-> 150,
         pickAndPackFee |-> 300, numberOfItems |-> 2, referralFeePercentage |-> 15]
Sparse == [current |-> <<-1>>, rank |-> <<>>, avg90 |-> <<-1>>, min90 |-> <<5, -1>>,
           history |-> <<<<0, Amazon>>>>, monthlySold |-> -1,
           pickAndPackFee |-> -1, packageQuantity |-> None, referralFeePercent |-> -1]

MCProducts == {Full, Sparse}
MCCsvs == {(a :> 1000) @@ (b :> None), [x \in {a} |-> 1200]}
MCSym == Permutations({w1, w2}) \cup Permutations({e1,e2})
MCCsvOrder == [csv \in MCCsvs |-> IF b \in DOMAIN csv THEN <<a, b>> ELSE <<a>>]
=============================================================================
