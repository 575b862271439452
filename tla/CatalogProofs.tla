--------------------------- MODULE CatalogProofs ---------------------------
(***************************************************************************)
(* Theorems about Catalog for any number of ETL runs, workers, ASINs and   *)
(* products.                                                               *)
(*                                                                         *)
(* What a writer has upserted and not yet committed is always the row and  *)
(* the stats of one product it was answered with, and is what it reports   *)
(* "ok" (WriterInv); so committed pairs come from one product (PairInv).   *)
(* A worker whose ASIN no ETL run has written since it read the cost still *)
(* has that run's cost (CostInv).                                          *)
(*                                                                         *)
(* Before that, what KeepaParse computes of a BuyBox history: its entries  *)
(* divide the time it covers, so that a share of it is a share.            *)
(***************************************************************************)
EXTENDS Catalog, SequenceTheorems, FiniteSetTheorems, TLAPS

-----------------------------------------------------------------------------
(***************************************************************************)
(* The BuyBox history: its entries, in whatever order they are listed and  *)
(* however many fall on one minute, cut the time they cover into segments. *)
(***************************************************************************)
IsHistory(log) ==
    /\ DOMAIN log = 1 .. Len(log) /\ Len(log) \in Nat
    /\ None \notin Int
    /\ \A i \in DOMAIN log : log[i][1] \in Int \cup {None}

\* Of some naturals, one is the least.
LEMMA LeastNatural ==
  ASSUME NEW T, T \subseteq Nat, T # {}
  PROVE  \E n \in T : \A m \in T : n <= m
<1>1. PICK n \in T : \A m \in T : ~ (<<m, n>> \in OpToRel(<, Nat))
  BY NatLessThanWellFounded, WFMin
<1>2. \A m \in T : ~ (m < n)
  BY <1>1 DEF OpToRel
<1> QED
  BY <1>2

\* And of some integers not below a bound.
LEMMA LeastInteger ==
  ASSUME NEW T, T \subseteq Int, T # {}, NEW low \in Int, \A t \in T : low <= t
  PROVE  \E t \in T : \A u \in T : t <= u
<1> DEFINE N == {n \in Nat : low + n \in T}
<1>1. \A t \in T : t - low \in N
  OBVIOUS
<1>2. N \subseteq Nat /\ N # {}
  BY <1>1
<1>4. PICK n \in N : \A m \in N : n <= m
  <2> HIDE DEF N
  <2> QED
    BY <1>2, LeastNatural
<1>5. \A u \in T : low + n <= u
  <2> SUFFICES ASSUME NEW u \in T
               PROVE  low + n <= u
    OBVIOUS
  <2>1. n <= u - low
    BY <1>1, <1>4
  <2> QED
    BY <2>1
<1> QED
  BY <1>5

\* Two entries come one after the other.
LEMMA PrecedesIsOrder ==
  ASSUME NEW log, IsHistory(log)
  PROVE  /\ Readable(log) \subseteq Nat
         /\ \A i \in Readable(log) : log[i][1] \in Int
         /\ \A i, j \in Readable(log) :
               i # j => Precedes(log, i, j) \/ Precedes(log, j, i)
BY DEF IsHistory, Readable, Precedes

\* An entry ends with the next one, or now when it is the last.
LEMMA EndOfFacts ==
  ASSUME NEW log, IsHistory(log), NEW now \in Int, NEW i \in Readable(log)
  PROVE  /\ EndOf(log, i, now) \in Int
         /\ \/ EndOf(log, i, now) = now
               /\ ~ \E j \in Readable(log) : Precedes(log, i, j)
            \/ \E j \in Readable(log) :
                  Precedes(log, i, j) /\ EndOf(log, i, now) = log[j][1]
         /\ \A j \in Readable(log) :
               Precedes(log, i, j) => EndOf(log, i, now) <= log[j][1]
<1> DEFINE next == {j \in Readable(log) : Precedes(log, i, j)}
           later == {log[j][1] : j \in next}
           end == IF later = {} THEN now ELSE CHOOSE t \in later : \A u \in later : t <= u
<1>1. EndOf(log, i, now) = end
  BY DEF EndOf
<1>2. log[i][1] \in Int /\ \A j \in next : log[j][1] \in Int /\ log[i][1] <= log[j][1]
  BY PrecedesIsOrder DEF Precedes
<1>3. later \subseteq Int /\ \A t \in later : log[i][1] <= t
  <2> HIDE DEF next
  <2> QED
    BY <1>2
<1>4. \A j \in next : log[j][1] \in later
  OBVIOUS
<1>5. \A t \in later : \E j \in next : t = log[j][1]
  OBVIOUS
<1>6. CASE later = {}
  <2>1. next = {} /\ end = now
    BY <1>4, <1>6
  <2> QED
    BY <1>1, <2>1
<1>7. CASE later # {}
  <2>1. \E t \in later : \A u \in later : t <= u
    <3> HIDE DEF later
    <3> QED
      BY <1>2, <1>3, <1>7, LeastInteger
  <2>2. end \in later /\ \A u \in later : end <= u
    <3>1. end = CHOOSE t \in later : \A u \in later : t <= u
      BY <1>7
    <3> HIDE DEF later, end
    <3> QED
      BY <2>1, <3>1
  <2> HIDE DEF later, end
  <2>3. PICK j \in next : end = log[j][1]
    BY <1>5, <2>2
  <2>4. \A k \in next : end <= log[k][1]
    BY <1>4, <2>2
  <2> QED
    BY <1>1, <1>2, <2>3, <2>4
<1> QED
  BY <1>6, <1>7

\* No minute is held by two entries.
LEMMA SegmentsDisjoint ==
  ASSUME NEW log, IsHistory(log), NEW now \in Int,
         NEW i \in Readable(log), NEW j \in Readable(log), NEW m \in Int,
         log[i][1] <= m, m < EndOf(log, i, now),
         log[j][1] <= m, m < EndOf(log, j, now)
  PROVE  i = j
<1> SUFFICES ASSUME i # j
             PROVE  FALSE
  OBVIOUS
<1>1. /\ log[i][1] \in Int /\ log[j][1] \in Int
      /\ EndOf(log, i, now) \in Int /\ EndOf(log, j, now) \in Int
  BY PrecedesIsOrder, EndOfFacts
<1>2. CASE Precedes(log, i, j)
  <2>1. EndOf(log, i, now) <= log[j][1]
    BY <1>2, EndOfFacts
  <2> QED
    BY <1>1, <2>1
<1>3. CASE Precedes(log, j, i)
  <2>1. EndOf(log, j, now) <= log[i][1]
    BY <1>3, EndOfFacts
  <2> QED
    BY <1>1, <2>1
<1> QED
  BY <1>2, <1>3, PrecedesIsOrder

\* Some entry is the last of those up to a minute.
LEMMA LastUpTo ==
  ASSUME NEW log, IsHistory(log), NEW m \in Int,
         NEW f \in Readable(log), log[f][1] <= m
  PROVE  \E i \in Readable(log) :
            /\ log[i][1] <= m
            /\ \A j \in Readable(log) : Precedes(log, i, j) => log[j][1] > m
<1> DEFINE R == Readable(log)
           Ages == {m - log[i][1] : i \in {j \in R : log[j][1] <= m}}
<1>1. \A i \in R : log[i][1] \in Int /\ i \in Nat
  BY PrecedesIsOrder
<1>2. Ages \subseteq Nat /\ Ages # {}
  <2>1. \A i \in {j \in R : log[j][1] <= m} : m - log[i][1] \in Nat
    BY <1>1
  <2>2. m - log[f][1] \in Ages
    OBVIOUS
  <2> QED
    BY <2>1, <2>2
<1>3. PICK age \in Ages : \A u \in Ages : age <= u
  <2> HIDE DEF Ages
  <2> QED
    BY <1>2, LeastNatural
<1>4. PICK i0 \in R : log[i0][1] <= m /\ age = m - log[i0][1]
  OBVIOUS
<1>5. \A j \in R : log[j][1] <= m => log[j][1] <= log[i0][1]
  <2> SUFFICES ASSUME NEW j \in R, log[j][1] <= m
               PROVE  log[j][1] <= log[i0][1]
    OBVIOUS
  <2>1. age <= m - log[j][1]
    BY <1>3
  <2> QED
    BY <1>1, <1>4, <2>1
<1> DEFINE Same == {j \in R : log[j][1] = log[i0][1]}
           Places == {Len(log) - j : j \in Same}
<1>6. Places \subseteq Nat /\ Places # {}
  BY <1>1, <1>4 DEF IsHistory, Readable
<1>7. PICK p \in Places : \A q \in Places : p <= q
  <2> HIDE DEF Places
  <2> QED
    BY <1>6, LeastNatural
<1>8. PICK i \in Same : p = Len(log) - i
  OBVIOUS
<1>9. \A j \in Same : j <= i
  <2> SUFFICES ASSUME NEW j \in Same
               PROVE  j <= i
    OBVIOUS
  <2>1. p <= Len(log) - j
    BY <1>7
  <2> QED
    BY <1>1, <1>8, <2>1 DEF IsHistory
<1>10. ASSUME NEW j \in R, Precedes(log, i, j), ~ (log[j][1] > m)
       PROVE  FALSE
  <2>1. log[j][1] <= m /\ log[j][1] <= log[i][1]
    BY <1>1, <1>5, <1>8, <1>10
  <2>2. log[i][1] = log[j][1] /\ i < j
    BY <1>1, <1>10, <2>1 DEF Precedes
  <2>3. j \in Same
    BY <1>8, <2>2
  <2> QED
    BY <1>1, <1>8, <1>9, <2>2, <2>3
<1> QED
  BY <1>4, <1>8, <1>10

\* The minutes an entry holds, and those that some entries hold.
LEMMA SegmentFacts ==
  ASSUME NEW log, IsHistory(log), NEW now \in Int, NEW i \in Readable(log)
  PROVE  /\ IsFiniteSet(Segment(log, i, now))
         /\ \A m : <<i, m>> \in Segment(log, i, now) <=>
                     m \in Int /\ log[i][1] <= m /\ m < EndOf(log, i, now)
         /\ \A s \in Segment(log, i, now) : \E m \in Int : s = <<i, m>>
<1> DEFINE low == log[i][1]
           high == EndOf(log, i, now) - 1
           D == low .. high
           f == [m \in D |-> <<i, m>>]
<1>1. low \in Int /\ high \in Int /\ EndOf(log, i, now) \in Int
  <2>1. EndOf(log, i, now) \in Int
    BY EndOfFacts
  <2> QED
    BY <2>1, PrecedesIsOrder
<1>2. Segment(log, i, now) = {<<i, m>> : m \in D}
  BY DEF Segment
<1>3. IsFiniteSet(D)
  <2> HIDE DEF low, high
  <2> QED
    BY <1>1, FS_Interval
<1> HIDE DEF D
<1>4. f \in Surjection(D, {<<i, m>> : m \in D})
  BY DEF Surjection
<1>5. IsFiniteSet(Segment(log, i, now))
  <2> HIDE DEF f
  <2> QED
    BY <1>2, <1>3, <1>4, FS_Surjection
<1>6. \A m : <<i, m>> \in Segment(log, i, now) <=> m \in D
  BY <1>2
<1>7. \A m : m \in D <=> m \in Int /\ low <= m /\ m < EndOf(log, i, now)
  BY <1>1 DEF D
<1>8. \A s \in Segment(log, i, now) : \E m \in Int : s = <<i, m>>
  BY <1>2, <1>7
<1> QED
  BY <1>5, <1>6, <1>7, <1>8

LEMMA HeldIsFinite ==
  ASSUME NEW log, IsHistory(log), NEW now \in Int,
         NEW entries \in SUBSET Readable(log)
  PROVE  IsFiniteSet(Held(log, entries, now))
<1> DEFINE R == Readable(log)
           S == {Segment(log, i, now) : i \in entries}
           f == [i \in entries |-> Segment(log, i, now)]
<1>1. IsFiniteSet(entries)
  <2>1. entries \subseteq 1 .. Len(log) /\ Len(log) \in Int /\ 1 \in Int
    BY DEF Readable, IsHistory
  <2> QED
    BY <2>1, FS_Interval, FS_Subset
<1>2. f \in Surjection(entries, S)
  BY DEF Surjection
<1>3. IsFiniteSet(S)
  <2> HIDE DEF S, f
  <2> QED
    BY <1>1, <1>2, FS_Surjection
<1>4. \A s \in S : IsFiniteSet(s)
  BY SegmentFacts
<1>5. Held(log, entries, now) = UNION S
  BY DEF Held
<1> QED
  <2> HIDE DEF S
  <2> QED
    BY <1>3, <1>4, <1>5, FS_UNION

\* The docstring's claim that the whole window goes from the first entry to now: when
\* no entry lies in the future, the entries together hold each of its minutes once.
THEOREM SegmentsTileTheWindow ==
  ASSUME NEW log, IsHistory(log), NEW now \in Int,
         NEW f \in Readable(log),
         \A j \in Readable(log) : log[f][1] <= log[j][1] /\ log[j][1] <= now
  PROVE  Cardinality(Held(log, Readable(log), now)) = now - log[f][1]
<1> DEFINE R == Readable(log)
           H == Held(log, R, now)
           low == log[f][1]
           D == low .. now - 1
           minute == [s \in H |-> s[2]]
<1>1. low \in Int /\ low <= now
  BY PrecedesIsOrder
<1>2. \A i \in R : \A m : <<i, m>> \in H <=>
             m \in Int /\ log[i][1] <= m /\ m < EndOf(log, i, now)
  <2> SUFFICES ASSUME NEW i \in R, NEW m
               PROVE  <<i, m>> \in H <=>
                        m \in Int /\ log[i][1] <= m /\ m < EndOf(log, i, now)
    OBVIOUS
  <2>1. <<i, m>> \in H => \E j \in R : <<i, m>> \in Segment(log, j, now)
    BY DEF Held
  <2>2. \A j \in R : <<i, m>> \in Segment(log, j, now) => i = j
    BY SegmentFacts
  <2>3. <<i, m>> \in Segment(log, i, now) => <<i, m>> \in H
    BY DEF Held
  <2> HIDE DEF H
  <2> QED
    BY <2>1, <2>2, <2>3, SegmentFacts
<1>3. \A s \in H : \E i \in R, m \in Int : s = <<i, m>>
  <2> SUFFICES ASSUME NEW s \in H
               PROVE  \E i \in R, m \in Int : s = <<i, m>>
    OBVIOUS
  <2>1. PICK i \in R : s \in Segment(log, i, now)
    BY DEF Held
  <2> QED
    BY <2>1, SegmentFacts
<1> HIDE DEF H
<1>4. \A i \in R : EndOf(log, i, now) <= now
  BY EndOfFacts
<1>5. minute \in [H -> D]
  <2> SUFFICES ASSUME NEW s \in H
               PROVE  s[2] \in D
    OBVIOUS
  <2>1. PICK i \in R, m \in Int : s = <<i, m>>
    BY <1>3
  <2>2. log[i][1] <= m /\ m < EndOf(log, i, now)
    BY <1>2, <2>1
  <2>3. EndOf(log, i, now) \in Int /\ EndOf(log, i, now) <= now
    BY <1>4, EndOfFacts
  <2>4. log[i][1] \in Int /\ low <= log[i][1]
    BY PrecedesIsOrder
  <2> HIDE DEF low
  <2> QED
    BY <1>1, <2>1, <2>2, <2>3, <2>4
<1>6. \A s, t \in H : s[2] = t[2] => s = t
  <2> SUFFICES ASSUME NEW s \in H, NEW t \in H, s[2] = t[2]
               PROVE  s = t
    OBVIOUS
  <2>1. PICK i \in R, m \in Int : s = <<i, m>>
    BY <1>3
  <2>2. PICK j \in R, n \in Int : t = <<j, n>>
    BY <1>3
  <2>3. m = n
    BY <2>1, <2>2
  <2>4. i = j
    BY <1>2, <2>1, <2>2, <2>3, SegmentsDisjoint
  <2> QED
    BY <2>1, <2>2, <2>3, <2>4
<1>7. \A m \in D : \E s \in H : s[2] = m
  <2> SUFFICES ASSUME NEW m \in D
               PROVE  \E s \in H : s[2] = m
    OBVIOUS
  <2>1. m \in Int /\ low <= m /\ m < now
    BY <1>1
  <2>2. PICK i \in R : /\ log[i][1] <= m
                       /\ \A j \in R : Precedes(log, i, j) => log[j][1] > m
    BY <2>1, LastUpTo
  <2>3. m < EndOf(log, i, now)
    BY <2>1, <2>2, EndOfFacts
  <2>4. <<i, m>> \in H /\ <<i, m>>[2] = m
    BY <1>2, <2>1, <2>2, <2>3
  <2> QED
    BY <2>4
<1>8. minute \in Bijection(H, D)
  BY <1>5, <1>6, <1>7 DEF Bijection, Injection, Surjection, IsInjective
<1>9. IsFiniteSet(H)
  BY HeldIsFinite DEF H
<1>10. Cardinality(H) = Cardinality(D)
  <2>1. ExistsBijection(H, D)
    BY <1>8 DEF ExistsBijection
  <2> HIDE DEF D
  <2> QED
    BY <1>9, <2>1, FS_Bijection
<1>11. Cardinality(D) = now - low
  <2>1. Cardinality(D) = IF low > now - 1 THEN 0 ELSE now - 1 - low + 1
    <3>1. now - 1 \in Int
      OBVIOUS
    <3> HIDE DEF low
    <3> QED
      BY <1>1, <3>1, FS_Interval
  <2> HIDE DEF low, D
  <2> QED
    BY <1>1, <2>1
<1> QED
  BY <1>10, <1>11 DEF H

\* Amazon's share is unknown or a percentage from 0 to 100, whatever the history holds:
\* unreadable minutes, entries out of order or in the future.
THEOREM ShareIsAPercentage ==
  ASSUME NEW log, IsHistory(log), NEW now \in Int, AmazonShare(log, now) # None
  PROVE  LET share == AmazonShare(log, now)
         IN  share[2] \in Nat \ {0} /\ share[1] \in 0 .. 100 * share[2]
<1> DEFINE R == Readable(log)
           byAmazon == {i \in R : log[i][2] = Amazon}
           all == Held(log, R, now)
           some == Held(log, byAmazon, now)
<1>1. IsFiniteSet(all) /\ some \subseteq all
  <2>1. some \subseteq all
    BY DEF Held
  <2> QED
    BY <2>1, HeldIsFinite
<1>2. Cardinality(all) \in Nat /\ Cardinality(some) \in Nat /\ Cardinality(some) <= Cardinality(all)
  <2> HIDE DEF all, some
  <2>1. IsFiniteSet(some) /\ Cardinality(some) <= Cardinality(all)
    BY <1>1, FS_Subset
  <2> QED
    BY <1>1, <2>1, FS_CardinalityType
<1>3. Cardinality(all) # 0 /\ AmazonShare(log, now) = <<100 * Cardinality(some), Cardinality(all)>>
  BY DEF AmazonShare
<1> HIDE DEF all, some
<1> QED
  BY <1>2, <1>3

-----------------------------------------------------------------------------
USE DEF Verdict, CostOf, RolledBack
USE CatalogAssumption

Paired(row, stat) ==
    \/ row = Missing /\ stat = Missing
    \/ \E product \in Products, cost \in Cost :
          row = RowOf(product, cost) /\ stat = StatsOf(product)

PairInv == \A a \in Asins : Paired(rows[a], stats[a])

Active(w) == pc[w] \in {"fetch", "process"}

TypeInv ==
    /\ DOMAIN rows = Asins /\ DOMAIN stats = Asins
    /\ lock \in [Asins -> Writers \cup {None}]
    /\ pc \in [Writers -> {"idle", "fetch", "process", "done", "crashed"}]
    /\ DOMAIN costs = Writers /\ DOMAIN response = Writers
    /\ DOMAIN own = Writers /\ DOMAIN results = Writers
    /\ todo \in [Writers -> Seq(Asins)]
    /\ DOMAIN etlCost = Asins
    /\ etlRuns \in [Asins -> Nat]
    /\ seenRuns \in [Workers -> Nat]

\* What a writer has in hand.
WriterOk(w) ==
    /\ ~ Active(w) => own[w] = Empty /\ todo[w] = <<>>
    /\ \A a \in DOMAIN costs[w] : a \in Asins /\ costs[w][a] \in Cost
    /\ pc[w] = "process" => \A a \in DOMAIN costs[w] : response[w][a] \in Products \cup {Missing}
    /\ \A i, j \in DOMAIN todo[w] : /\ todo[w][i] \in DOMAIN costs[w]
                                    /\ todo[w][i] = todo[w][j] => i = j
    /\ pc[w] = "process" => \A i \in DOMAIN todo[w] : todo[w][i] \notin DOMAIN results[w]
    /\ pc[w] \in {"idle", "fetch"} => own[w] = Empty /\ results[w] = Empty
    /\ \A a \in DOMAIN own[w] :
          /\ a \in DOMAIN costs[w]
          /\ response[w][a] \in Products
          /\ own[w][a] = <<RowOf(response[w][a], costs[w][a]), StatsOf(response[w][a])>>
          /\ a \in DOMAIN results[w] /\ results[w][a] = "ok"
    /\ pc[w] = "process" => \A a \in DOMAIN results[w] :
          results[w][a] = "ok" => a \in DOMAIN own[w]

WriterInv == \A w \in Writers : WriterOk(w)

LEMMA EmptyFacts == DOMAIN Empty = {}
BY DEF Empty

LEMMA TypeInit == Init => TypeInv
BY EmptyFacts DEF Init, TypeInv

LEMMA WriterInit == Init => WriterInv
BY EmptyFacts DEF Init, WriterInv, WriterOk, Active

LEMMA PairInit == Init => PairInv
BY DEF Init, PairInv, Paired

\* The actions, with the locals of other writers left alone.
LEMMA Steps ==
  ASSUME Next
  PROVE  \/ \E e \in Etls : EtlStart(e)
         \/ \E w \in Workers, a \in Asins : WorkerStart(w, a)
         \/ \E w \in Writers : Fetch(w) \/ FetchFails(w) \/ Commit(w) \/ Crash(w)
         \/ \E w \in Writers, a \in Asins : NotFound(w, a) \/ Upsert(w, a) \/ ProcessFails(w, a)
BY DEF Next

LEMMA TypeNext == TypeInv /\ [Next]_vars => TypeInv'
<1> SUFFICES ASSUME TypeInv, [Next]_vars
             PROVE  TypeInv'
  OBVIOUS
<1> USE DEF TypeInv
<1>0. Etls \subseteq Writers /\ Workers \subseteq Writers
  BY DEF Writers
<1>1. CASE UNCHANGED vars
  BY <1>1 DEF vars
<1>2. CASE \E e \in Etls : EtlStart(e)
  BY <1>0, <1>2 DEF EtlStart, history
<1>3. CASE \E w \in Workers, a \in Asins : WorkerStart(w, a)
  BY <1>0, <1>3 DEF WorkerStart, history
<1>4. CASE \E w \in Writers : Fetch(w)
  BY <1>4 DEF Fetch, history
<1>5. CASE \E w \in Writers : FetchFails(w)
  BY <1>5 DEF FetchFails, Leaves, history
<1>6. CASE \E w \in Writers, a \in Asins : NotFound(w, a) \/ Upsert(w, a) \/ ProcessFails(w, a)
  <2>1. PICK w \in Writers, a \in Asins : NotFound(w, a) \/ Upsert(w, a) \/ ProcessFails(w, a)
    BY <1>6
  <2>2. todo[w] \in Seq(Asins) /\ todo[w] # <<>> /\ todo' = [todo EXCEPT ![w] = Tail(todo[w])]
    BY <2>1 DEF NotFound, Upsert, ProcessFails, IsNext, Reports
  <2>3. todo' \in [Writers -> Seq(Asins)]
    BY <2>2
  <2>4. /\ own' = own \/ \E x : own' = [own EXCEPT ![w] = x]
        /\ \E x : results' = [results EXCEPT ![w] = x]
        /\ lock' = lock \/ lock' = [lock EXCEPT ![a] = w]
        /\ UNCHANGED <<rows, stats, pc, costs, response, seenRuns, history>>
    <3>1. CASE NotFound(w, a)
      BY <3>1, Zenon DEF NotFound, Reports
    <3>2. CASE Upsert(w, a)
      BY <3>2, Zenon DEF Upsert, Reports
    <3>3. CASE ProcessFails(w, a)
      BY <3>3, Zenon DEF ProcessFails, Reports
    <3> QED
      BY <2>1, <3>1, <3>2, <3>3
  <2>5. DOMAIN own' = Writers
    <3>1. DOMAIN own = Writers
      OBVIOUS
    <3> QED
      BY <2>4, <3>1, Zenon
  <2>6. DOMAIN results' = Writers
    <3>1. DOMAIN results = Writers
      OBVIOUS
    <3> QED
      BY <2>4, <3>1, Zenon
  <2>7. lock' \in [Asins -> Writers \cup {None}]
    <3>1. lock' = lock \/ lock' = [lock EXCEPT ![a] = w]
      BY <2>4, Zenon
    <3>2. lock \in [Asins -> Writers \cup {None}] /\ w \in Writers \cup {None}
      OBVIOUS
    <3>3. [lock EXCEPT ![a] = w] \in [Asins -> Writers \cup {None}]
      BY <3>2, Zenon
    <3>4. CASE lock' = lock
      BY <3>2, <3>4
    <3>5. CASE lock' = [lock EXCEPT ![a] = w]
      BY <3>3, <3>5
    <3> QED
      BY <3>1, <3>4, <3>5
  <2> QED
    BY <2>3, <2>4, <2>5, <2>6, <2>7 DEF history
<1>7. CASE \E w \in Writers : Commit(w)
  <2>1. PICK w \in Writers : Commit(w)
    BY <1>7
  <2>2. etlRuns' \in [Asins -> Nat] /\ DOMAIN etlCost' = Asins
    <3>1. \/ etlRuns' = etlRuns /\ etlCost' = etlCost
          \/ /\ etlRuns' = [a \in Asins |->
                               IF a \in DOMAIN own[w] THEN etlRuns[a] + 1 ELSE etlRuns[a]]
             /\ etlCost' = [a \in Asins |->
                               IF a \in DOMAIN own[w] THEN costs[w][a] ELSE etlCost[a]]
      BY <2>1 DEF Commit
    <3> QED
      BY <3>1
  <2> QED
    BY <2>1, <2>2 DEF Commit, Leaves, Unlocked
<1>8. CASE \E w \in Writers : Crash(w)
  BY <1>8 DEF Crash, Leaves, Unlocked, history
<1> QED
  BY <1>1, <1>2, <1>3, <1>4, <1>5, <1>6, <1>7, <1>8, Steps

\* Who does not move keeps what it has.
LEMMA OthersKeep ==
  ASSUME NEW w \in Writers, WriterOk(w),
         pc'[w] = pc[w], costs'[w] = costs[w], response'[w] = response[w],
         todo'[w] = todo[w], own'[w] = own[w], results'[w] = results[w]
  PROVE  WriterOk(w)'
BY DEF WriterOk, Active

LEMMA TailFacts ==
  ASSUME NEW s \in Seq(Asins), s # <<>>
  PROVE  /\ Tail(s) \in Seq(Asins)
         /\ Head(s) = s[1] /\ 1 \in DOMAIN s
         /\ \A i \in DOMAIN Tail(s) : i + 1 \in DOMAIN s /\ i + 1 # 1 /\ Tail(s)[i] = s[i + 1]
         /\ \A i \in DOMAIN Tail(s) : i \in Int
OBVIOUS

\* The next of the sequence is done with: what is left has not been reported.
LEMMA OneMore ==
  ASSUME TypeInv, WriterInv, NEW w \in Writers, NEW a \in Asins, IsNext(w, a),
         NEW status, Reports(w, a, status)
  PROVE  /\ a \in DOMAIN costs[w] /\ a \notin DOMAIN results[w]
         /\ results'[w] = [b \in {a} \cup DOMAIN results[w] |->
                              IF b = a THEN status ELSE results[w][b]]
         /\ \A i, j \in DOMAIN todo'[w] : /\ todo'[w][i] \in DOMAIN costs[w]
                                          /\ todo'[w][i] = todo'[w][j] => i = j
         /\ \A i \in DOMAIN todo'[w] : todo'[w][i] \notin DOMAIN results[w] \cup {a}
         /\ \A v \in Writers \ {w} : todo'[v] = todo[v] /\ results'[v] = results[v]
<1> DEFINE s == todo[w]
<1>1. s \in Seq(Asins) /\ s # <<>> /\ a = Head(s) /\ pc[w] = "process"
  BY DEF TypeInv, IsNext
<1>2. /\ todo' = [todo EXCEPT ![w] = Tail(s)]
      /\ results' = [results EXCEPT ![w] = [b \in {a} \cup DOMAIN results[w] |->
                                             IF b = a THEN status ELSE results[w][b]]]
  BY Zenon DEF Reports
<1>3. todo'[w] = Tail(s)
  BY <1>2 DEF TypeInv
<1>4. /\ \A i, j \in DOMAIN s : s[i] \in DOMAIN costs[w] /\ (s[i] = s[j] => i = j)
      /\ \A i \in DOMAIN s : s[i] \notin DOMAIN results[w]
  <2>1. WriterOk(w)
    BY DEF WriterInv
  <2>2. \A i, j \in DOMAIN todo[w] : todo[w][i] \in DOMAIN costs[w] /\ (todo[w][i] = todo[w][j] => i = j)
    BY <2>1 DEF WriterOk
  <2>3. \A i \in DOMAIN todo[w] : todo[w][i] \notin DOMAIN results[w]
    BY <1>1, <2>1, Zenon DEF WriterOk
  <2> QED
    BY <2>2, <2>3
<1> HIDE DEF s
<1>5. a = s[1] /\ 1 \in DOMAIN s
  BY <1>1, TailFacts
<1>6. \A i \in DOMAIN Tail(s) : i + 1 \in DOMAIN s /\ i + 1 # 1 /\ Tail(s)[i] = s[i + 1] /\ i \in Int
  BY <1>1, TailFacts
<1>7. \A i, j \in DOMAIN Tail(s) : /\ Tail(s)[i] \in DOMAIN costs[w]
                                   /\ Tail(s)[i] = Tail(s)[j] => i = j
  <2> SUFFICES ASSUME NEW i \in DOMAIN Tail(s), NEW j \in DOMAIN Tail(s)
               PROVE  /\ Tail(s)[i] \in DOMAIN costs[w]
                      /\ Tail(s)[i] = Tail(s)[j] => i = j
    OBVIOUS
  <2>1. Tail(s)[i] = Tail(s)[j] => i + 1 = j + 1
    BY <1>4, <1>6
  <2> QED
    BY <1>4, <1>6, <2>1
<1>8. \A i \in DOMAIN Tail(s) : Tail(s)[i] \notin DOMAIN results[w] \cup {a}
  BY <1>4, <1>5, <1>6
<1>9. results'[w] = [b \in {a} \cup DOMAIN results[w] |-> IF b = a THEN status ELSE results[w][b]]
  BY <1>2 DEF TypeInv
<1>10. \A v \in Writers \ {w} : todo'[v] = todo[v] /\ results'[v] = results[v]
  BY <1>2 DEF TypeInv
<1> QED
  BY <1>3, <1>4, <1>5, <1>7, <1>8, <1>9, <1>10

LEMMA RowFacts ==
  ASSUME NEW product, NEW cost
  PROVE  /\ RowOf(product, cost).cost = cost
         /\ RowOf(product, cost).failed = Failed(RowOf(product, cost).raw)
         /\ StatsOf(product).deviation =
              Deviation(RowOf(product, cost).raw.buybox, StatsOf(product).avg)
BY DEF RowOf, StatsOf, Parsed

LEMMA WriterNext == TypeInv /\ PairInv /\ WriterInv /\ [Next]_vars => WriterInv'
<1> SUFFICES ASSUME TypeInv, PairInv, WriterInv, [Next]_vars
             PROVE  WriterInv'
  OBVIOUS
<1>0. Etls \subseteq Writers /\ Workers \subseteq Writers
  BY DEF Writers
<1>1. CASE UNCHANGED vars
  BY <1>1 DEF vars, WriterInv, WriterOk, Active
<1>2. ASSUME NEW e \in Etls, EtlStart(e)
      PROVE  WriterInv'
  <2>1. PICK csv \in Csvs : /\ costs' = [costs EXCEPT ![e] = csv]
                            /\ todo' = [todo EXCEPT ![e] = CsvOrder[csv]]
    BY <1>2 DEF EtlStart
  <2>2. /\ pc[e] = "idle" /\ pc' = [pc EXCEPT ![e] = "fetch"]
        /\ UNCHANGED <<response, own, results>>
    BY <1>2 DEF EtlStart
  <2>3. \A a \in DOMAIN csv : a \in Asins /\ csv[a] \in Cost
    BY DEF Cost
  <2>4. WriterOk(e)
    BY <1>0 DEF WriterInv
  <2>5. /\ pc'[e] = "fetch" /\ costs'[e] = csv /\ todo'[e] = CsvOrder[csv]
        /\ own'[e] = Empty /\ results'[e] = Empty
    BY <1>0, <2>1, <2>2, <2>4 DEF TypeInv, WriterOk
  <2>6. WriterOk(e)'
    BY <2>3, <2>5, EmptyFacts DEF WriterOk, Active
  <2>7. \A v \in Writers \ {e} : /\ pc'[v] = pc[v] /\ costs'[v] = costs[v]
                                 /\ todo'[v] = todo[v]
    BY <2>1, <2>2 DEF TypeInv
  <2> QED
    BY <2>2, <2>6, <2>7, OthersKeep DEF WriterInv
<1>3. ASSUME NEW w \in Workers, NEW a \in Asins, WorkerStart(w, a)
      PROVE  WriterInv'
  <2>1. /\ costs' = [costs EXCEPT ![w] = [b \in {a} |-> rows[a].cost]]
        /\ todo' = [todo EXCEPT ![w] = <<a>>]
        /\ pc[w] = "idle" /\ pc' = [pc EXCEPT ![w] = "fetch"] /\ rows[a] # Missing
        /\ UNCHANGED <<response, own, results>>
    BY <1>3 DEF WorkerStart
  <2>2. rows[a].cost \in Cost
    BY <2>1, RowFacts DEF PairInv, Paired
  <2>3. WriterOk(w)
    BY <1>0 DEF WriterInv
  <2>4. /\ pc'[w] = "fetch" /\ costs'[w] = [b \in {a} |-> rows[a].cost] /\ todo'[w] = <<a>>
        /\ own'[w] = Empty /\ results'[w] = Empty
    BY <1>0, <2>1, <2>3 DEF TypeInv, WriterOk
  <2>5. WriterOk(w)'
    BY <2>2, <2>4, EmptyFacts DEF WriterOk, Active
  <2>6. \A v \in Writers \ {w} : /\ pc'[v] = pc[v] /\ costs'[v] = costs[v]
                                 /\ todo'[v] = todo[v]
    BY <2>1 DEF TypeInv
  <2> QED
    BY <2>1, <2>5, <2>6, OthersKeep DEF WriterInv
<1>4. ASSUME NEW w \in Writers, Fetch(w)
      PROVE  WriterInv'
  <2>1. PICK answer \in [DOMAIN costs[w] -> Products \cup {Missing}] :
           response' = [response EXCEPT ![w] = answer]
    BY <1>4 DEF Fetch
  <2>2. /\ pc[w] = "fetch" /\ pc' = [pc EXCEPT ![w] = "process"]
        /\ UNCHANGED <<costs, todo, own, results>>
    BY <1>4 DEF Fetch
  <2>3. WriterOk(w)
    BY DEF WriterInv
  <2>4. /\ pc'[w] = "process" /\ response'[w] = answer
        /\ own'[w] = Empty /\ results'[w] = Empty
    BY <2>1, <2>2, <2>3 DEF TypeInv, WriterOk
  <2>5. WriterOk(w)'
    BY <2>2, <2>3, <2>4, EmptyFacts DEF WriterOk, Active
  <2>6. \A v \in Writers \ {w} : pc'[v] = pc[v] /\ response'[v] = response[v]
    BY <2>1, <2>2 DEF TypeInv
  <2> QED
    BY <2>2, <2>5, <2>6, OthersKeep DEF WriterInv
<1>5. ASSUME NEW w \in Writers, NEW how \in {"done", "crashed"}, Leaves(w, how),
             \A v \in Writers \ {w} : results'[v] = results[v]
      PROVE  WriterInv'
  <2>1. /\ pc'[w] = how /\ costs'[w] = Empty /\ own'[w] = Empty /\ todo'[w] = <<>>
    BY <1>5 DEF Leaves, TypeInv
  <2>2. WriterOk(w)'
    BY <2>1, EmptyFacts DEF WriterOk, Active
  <2>3. \A v \in Writers \ {w} : /\ pc'[v] = pc[v] /\ costs'[v] = costs[v]
                                 /\ response'[v] = response[v] /\ todo'[v] = todo[v]
                                 /\ own'[v] = own[v]
    BY <1>5 DEF Leaves, TypeInv
  <2> QED
    BY <1>5, <2>2, <2>3, OthersKeep DEF WriterInv
<1>6. ASSUME NEW w \in Writers, FetchFails(w) \/ Commit(w) \/ Crash(w)
      PROVE  WriterInv'
  <2>1. \E how \in {"done", "crashed"} : Leaves(w, how)
    BY <1>6 DEF FetchFails, Commit, Crash
  <2>2. \A v \in Writers \ {w} : results'[v] = results[v]
    BY <1>6 DEF FetchFails, Commit, Crash, TypeInv
  <2> QED
    BY <1>5, <2>1, <2>2
<1>7. ASSUME NEW w \in Writers, NEW a \in Asins,
             NotFound(w, a) \/ Upsert(w, a) \/ ProcessFails(w, a)
      PROVE  WriterInv'
  <2>0. PICK status : /\ IsNext(w, a) /\ Reports(w, a, status)
                      /\ UNCHANGED <<pc, costs, response>>
                      /\ \/ own'[w] = own[w] /\ status # "ok"
                         \/ /\ own'[w] = Written(w, a, RowOf(response[w][a], costs[w][a]),
                                                 StatsOf(response[w][a]))
                            /\ response[w][a] # Missing /\ status = "ok"
                      /\ \A v \in Writers \ {w} : own'[v] = own[v]
    <3>1. CASE NotFound(w, a)
      BY <3>1 DEF NotFound
    <3>2. CASE Upsert(w, a)
      BY <3>2 DEF Upsert, TypeInv
    <3>3. CASE ProcessFails(w, a)
      BY <3>3 DEF ProcessFails, TypeInv
    <3> QED
      BY <1>7, <3>1, <3>2, <3>3
  <2>1. /\ a \in DOMAIN costs[w] /\ a \notin DOMAIN results[w]
        /\ results'[w] = [b \in {a} \cup DOMAIN results[w] |->
                            IF b = a THEN status ELSE results[w][b]]
        /\ \A i, j \in DOMAIN todo'[w] : /\ todo'[w][i] \in DOMAIN costs[w]
                                         /\ todo'[w][i] = todo'[w][j] => i = j
        /\ \A i \in DOMAIN todo'[w] : todo'[w][i] \notin DOMAIN results[w] \cup {a}
        /\ \A v \in Writers \ {w} : todo'[v] = todo[v] /\ results'[v] = results[v]
    BY <2>0, OneMore
  <2>2. WriterOk(w) /\ pc[w] = "process"
    BY <2>0 DEF WriterInv, IsNext
  <2>3. /\ DOMAIN results'[w] = {a} \cup DOMAIN results[w] /\ results'[w][a] = status
        /\ \A b \in DOMAIN results[w] : results'[w][b] = results[w][b]
    BY <2>1
  <2>4. /\ \A b \in DOMAIN own'[w] :
             /\ b \in DOMAIN costs[w]
             /\ response[w][b] \in Products
             /\ own'[w][b] = <<RowOf(response[w][b], costs[w][b]), StatsOf(response[w][b])>>
             /\ b \in DOMAIN results'[w] /\ results'[w][b] = "ok"
        /\ \A b \in DOMAIN results'[w] : results'[w][b] = "ok" => b \in DOMAIN own'[w]
    <3>1. CASE own'[w] = own[w] /\ status # "ok"
      BY <2>1, <2>2, <2>3, <3>1 DEF WriterOk
    <3>2. CASE /\ own'[w] = Written(w, a, RowOf(response[w][a], costs[w][a]),
                                    StatsOf(response[w][a]))
               /\ response[w][a] # Missing /\ status = "ok"
      <4>1. /\ DOMAIN own'[w] = {a} \cup DOMAIN own[w]
            /\ own'[w][a] = <<RowOf(response[w][a], costs[w][a]), StatsOf(response[w][a])>>
            /\ \A b \in DOMAIN own[w] : b # a => own'[w][b] = own[w][b]
        BY <3>2 DEF Written
      <4>2. response[w][a] \in Products
        BY <2>1, <2>2, <3>2 DEF WriterOk
      <4> QED
        BY <2>1, <2>2, <2>3, <3>2, <4>1, <4>2 DEF WriterOk
    <3> QED
      BY <2>0, <3>1, <3>2
  <2>5. WriterOk(w)'
    <3>1. pc'[w] = "process" /\ costs'[w] = costs[w] /\ response'[w] = response[w]
      BY <2>0, <2>2
    <3>2. /\ \A b \in DOMAIN costs[w] : b \in Asins /\ costs[w][b] \in Cost
          /\ \A b \in DOMAIN costs[w] : response[w][b] \in Products \cup {Missing}
      BY <2>2 DEF WriterOk
    <3>3. \A i \in DOMAIN todo'[w] : todo'[w][i] \notin DOMAIN results'[w]
      BY <2>1, <2>3
    <3>4. /\ \A b \in DOMAIN costs'[w] : b \in Asins /\ costs'[w][b] \in Cost
          /\ \A b \in DOMAIN costs'[w] : response'[w][b] \in Products \cup {Missing}
          /\ \A i, j \in DOMAIN todo'[w] : /\ todo'[w][i] \in DOMAIN costs'[w]
                                           /\ todo'[w][i] = todo'[w][j] => i = j
          /\ \A b \in DOMAIN own'[w] :
                /\ b \in DOMAIN costs'[w]
                /\ response'[w][b] \in Products
                /\ own'[w][b] = <<RowOf(response'[w][b], costs'[w][b]), StatsOf(response'[w][b])>>
                /\ b \in DOMAIN results'[w] /\ results'[w][b] = "ok"
      BY <2>1, <2>4, <3>1, <3>2
    <3> QED
      BY <2>4, <3>1, <3>3, <3>4 DEF WriterOk, Active
  <2> QED
    BY <2>0, <2>1, <2>5, OthersKeep DEF WriterInv
<1> QED
  BY <1>1, <1>2, <1>3, <1>4, <1>6, <1>7, Steps

LEMMA PairNext == TypeInv /\ PairInv /\ WriterInv /\ [Next]_vars => PairInv'
<1> SUFFICES ASSUME TypeInv, PairInv, WriterInv, [Next]_vars
             PROVE  PairInv'
  OBVIOUS
<1>1. CASE UNCHANGED <<rows, stats>>
  BY <1>1 DEF PairInv, Paired
<1>2. CASE \E w \in Writers : Commit(w)
  <2>1. PICK w \in Writers : Commit(w)
    BY <1>2
  <2>2. /\ rows' = [a \in Asins |-> IF a \in DOMAIN own[w] THEN own[w][a][1] ELSE rows[a]]
        /\ stats' = [a \in Asins |-> IF a \in DOMAIN own[w] THEN own[w][a][2] ELSE stats[a]]
    BY <2>1 DEF Commit
  <2> SUFFICES ASSUME NEW a \in Asins
               PROVE  Paired(rows'[a], stats'[a])
    BY DEF PairInv, Paired
  <2>3. CASE a \notin DOMAIN own[w]
    BY <2>2, <2>3 DEF PairInv
  <2>4. CASE a \in DOMAIN own[w]
    <3>1. WriterOk(w)
      BY DEF WriterInv
    <3>2. /\ a \in DOMAIN costs[w] /\ response[w][a] \in Products
          /\ own[w][a] = <<RowOf(response[w][a], costs[w][a]), StatsOf(response[w][a])>>
          /\ costs[w][a] \in Cost
      BY <2>4, <3>1 DEF WriterOk
    <3>3. /\ rows'[a] = RowOf(response[w][a], costs[w][a])
          /\ stats'[a] = StatsOf(response[w][a])
      BY <2>2, <2>4, <3>2
    <3> QED
      BY <3>2, <3>3 DEF Paired
  <2> QED
    BY <2>3, <2>4
<1> QED
  BY <1>1, <1>2, Steps DEF vars, EtlStart, WorkerStart, Fetch, FetchFails, NotFound, Upsert,
     ProcessFails, Crash

LEMMA Invariants == Spec => [](TypeInv /\ PairInv /\ WriterInv)
BY TypeInit, PairInit, WriterInit, TypeNext, PairNext, WriterNext, PTL DEF Spec

\* An ROI is computed from a price and a cost above 0.
LEMMA RoiFacts ==
  ASSUME NEW product \in Products, NEW cost \in Cost, RowOf(product, cost).roi # None
  PROVE  RowOf(product, cost).raw.buybox # None /\ cost # None /\ cost > 0
<1> DEFINE raw == Parsed(product)
           n == NumberOfItems(product)
<1>1. /\ RowOf(product, cost).raw = raw
      /\ RowOf(product, cost).roi =
           RoiOf(raw.buybox, raw.referral, SafeValue(product.pickAndPackFee), cost, n)
  BY DEF RowOf
<1>2. raw.buybox # None /\ cost # None
  BY <1>1 DEF RoiOf
<1>3. ~ (100 * cost * Units(n) <= 0)
  BY <1>1 DEF RoiOf, Roi
<1>4. cost \in Int
  BY <1>2 DEF Cost
<1>5. Units(n) \in Int /\ Units(n) >= 1
  BY DEF Units
<1>6. cost > 0
  <2> HIDE DEF n
  <2>1. \A c, u \in Int : c <= 0 /\ u >= 1 => 100 * c * u <= 0
    OBVIOUS
  <2> QED
    BY <1>3, <1>4, <1>5, <2>1
<1> QED
  BY <1>1, <1>2, <1>6

\* Whatever fails or overlaps, the two rows of an ASIN come from one product, and what
\* /eligibility serves is what filters use.
THEOREM RowsStayTogether == Spec => []RowsAgree
<1>1. PairInv => RowsAgree
  <2> SUFFICES ASSUME PairInv, NEW a \in Asins
               PROVE  /\ rows[a] = Missing <=> stats[a] = Missing
                      /\ rows[a] # Missing =>
                           LET served == Serialize(rows[a], stats[a]) IN
                           /\ served.failed = rows[a].failed
                           /\ stats[a].deviation = Deviation(rows[a].raw.buybox, stats[a].avg)
                           /\ served.roi # None =>
                                rows[a].raw.buybox # None /\ served.cost # None /\ served.cost > 0
    BY DEF RowsAgree
  <2>1. CASE rows[a] = Missing /\ stats[a] = Missing
    BY <2>1
  <2>2. CASE \E product \in Products, cost \in Cost :
                rows[a] = RowOf(product, cost) /\ stats[a] = StatsOf(product)
    <3>1. PICK product \in Products, cost \in Cost :
                rows[a] = RowOf(product, cost) /\ stats[a] = StatsOf(product)
      BY <2>2
    <3>2. rows[a] # Missing /\ stats[a] # Missing
      BY <3>1, MissingIsNoRow
    <3>3. /\ Serialize(rows[a], stats[a]).failed = Failed(rows[a].raw)
          /\ Serialize(rows[a], stats[a]).roi = rows[a].roi
          /\ Serialize(rows[a], stats[a]).cost = rows[a].cost
      BY DEF Serialize
    <3> QED
      BY <3>1, <3>2, <3>3, RowFacts, RoiFacts
  <2> QED
    BY <2>1, <2>2 DEF PairInv, Paired
<1> QED
  BY <1>1, Invariants, PTL

\* What a writer reports "ok" is committed as it was answered, and nothing else changes.
THEOREM ReportsAreTrue == Spec => ReportIsTrue
<1>1. TypeInv /\ WriterInv /\ [Next]_vars =>
        [/\ \A a \in Asins : rows'[a] # rows[a] \/ stats'[a] # stats[a] =>
              \E w \in Writers : pc'[w] # pc[w] /\ a \in DOMAIN results[w] /\ results[w][a] = "ok"
         /\ \A w \in Writers : pc[w] = "process" /\ pc'[w] = "done" =>
              \A a \in DOMAIN results[w] : results[w][a] = "ok" =>
                 /\ rows'[a] = RowOf(response[w][a], costs[w][a])
                 /\ stats'[a] = StatsOf(response[w][a])]_vars
  <2> DEFINE Changes == \A a \in Asins : rows'[a] # rows[a] \/ stats'[a] # stats[a] =>
                           \E w \in Writers : /\ pc'[w] # pc[w]
                                              /\ a \in DOMAIN results[w] /\ results[w][a] = "ok"
             Holds == \A w \in Writers : pc[w] = "process" /\ pc'[w] = "done" =>
                         \A a \in DOMAIN results[w] : results[w][a] = "ok" =>
                            /\ rows'[a] = RowOf(response[w][a], costs[w][a])
                            /\ stats'[a] = StatsOf(response[w][a])
  <2> SUFFICES ASSUME TypeInv, WriterInv, [Next]_vars, vars' # vars
               PROVE  Changes /\ Holds
    OBVIOUS
  <2>1. CASE /\ UNCHANGED <<rows, stats>>
             /\ \A w \in Writers : pc[w] = "process" => pc'[w] # "done"
    BY <2>1
  <2>2. CASE \E w \in Writers : Commit(w)
    <3>1. PICK w \in Writers : Commit(w)
      BY <2>2
    <3>2. /\ rows' = [a \in Asins |-> IF a \in DOMAIN own[w] THEN own[w][a][1] ELSE rows[a]]
          /\ stats' = [a \in Asins |-> IF a \in DOMAIN own[w] THEN own[w][a][2] ELSE stats[a]]
          /\ pc[w] = "process" /\ pc' = [pc EXCEPT ![w] = "done"]
      BY <3>1 DEF Commit, Leaves
    <3>3. WriterOk(w)
      BY DEF WriterInv
    <3>4. pc'[w] = "done" /\ \A v \in Writers \ {w} : pc'[v] = pc[v]
      BY <3>2 DEF TypeInv
    <3>5. \A a \in DOMAIN own[w] :
             /\ own[w][a] = <<RowOf(response[w][a], costs[w][a]), StatsOf(response[w][a])>>
             /\ a \in DOMAIN results[w] /\ results[w][a] = "ok"
      BY <3>3 DEF WriterOk
    <3>6. \A a \in DOMAIN results[w] : results[w][a] = "ok" => a \in DOMAIN own[w]
      BY <3>2, <3>3 DEF WriterOk
    <3>7. \A a \in Asins : rows'[a] # rows[a] \/ stats'[a] # stats[a] => a \in DOMAIN own[w]
      BY <3>2 DEF TypeInv
    <3>8. \A a \in DOMAIN own[w] : a \in Asins =>
             /\ rows'[a] = RowOf(response[w][a], costs[w][a])
             /\ stats'[a] = StatsOf(response[w][a])
      BY <3>2, <3>5
    <3>9. Changes
      BY <3>2, <3>4, <3>5, <3>7
    <3>10. Holds
      BY <3>2, <3>3, <3>4, <3>6, <3>8 DEF WriterOk
    <3> QED
      BY <3>9, <3>10
  <2>3. CASE \E w \in Writers : FetchFails(w) \/ Crash(w)
    <3>1. PICK w \in Writers, how \in {"done", "crashed"} :
             /\ UNCHANGED <<rows, stats>>
             /\ pc' = [pc EXCEPT ![w] = how] /\ (pc[w] = "fetch" \/ how = "crashed")
      BY <2>3 DEF FetchFails, Crash, Leaves
    <3> QED
      BY <2>1, <3>1 DEF TypeInv
  <2>4. CASE \E e \in Etls : EtlStart(e)
    BY <2>1, <2>4 DEF EtlStart, TypeInv
  <2>5. CASE \E w \in Workers, a \in Asins : WorkerStart(w, a)
    BY <2>1, <2>5 DEF WorkerStart, TypeInv
  <2>6. CASE \E w \in Writers : Fetch(w)
    BY <2>1, <2>6 DEF Fetch, TypeInv
  <2>7. CASE \E w \in Writers, a \in Asins :
                NotFound(w, a) \/ Upsert(w, a) \/ ProcessFails(w, a)
    BY <2>1, <2>7 DEF NotFound, Upsert, ProcessFails
  <2> QED
    BY <2>1, <2>2, <2>3, <2>4, <2>5, <2>6, <2>7, Steps
<1> QED
  BY <1>1, Invariants, PTL DEF Spec, ReportIsTrue

\* What a worker read is at most as old as the row's last ETL run, and is that run's cost
\* unless the run came later or somebody else's write overtook it.
ReadCostOk(w) ==
    Active(w) => \A a \in DOMAIN costs[w] :
        /\ seenRuns[w] <= etlRuns[a]
        /\ seenRuns[w] = etlRuns[a] /\ a \notin overtaken => costs[w][a] = etlCost[a]

CostInv == CostFromCsv /\ \A w \in Workers : ReadCostOk(w)

LEMMA CostInit == Init => CostInv
<1> SUFFICES ASSUME Init
             PROVE  CostInv
  OBVIOUS
<1>1. CostFromCsv
  BY DEF Init, CostFromCsv
<1>2. \A w \in Workers : ~ Active(w)
  BY DEF Init, Active, Writers
<1> QED
  BY <1>1, <1>2 DEF CostInv, ReadCostOk

LEMMA CostCommit ==
  ASSUME TypeInv, WriterInv, CostInv, NEW w \in Writers, Commit(w)
  PROVE  CostInv'
<1>0. Etls \subseteq Writers /\ Workers \subseteq Writers
  BY DEF Writers
<1>1. WriterOk(w) /\ Active(w)
  BY DEF Commit, Active, WriterInv
<1>2. \A a \in DOMAIN own[w] : /\ a \in DOMAIN costs[w]
                               /\ own[w][a][1].cost = costs[w][a]
  BY <1>1, RowFacts DEF WriterOk
<1>3. /\ rows' = [a \in Asins |-> IF a \in DOMAIN own[w] THEN own[w][a][1] ELSE rows[a]]
      /\ seenRuns' = seenRuns
  BY DEF Commit
<1>4. \A v \in Workers \ {w} : Active(v)' = Active(v) /\ costs'[v] = costs[v]
  BY <1>0 DEF Commit, Leaves, TypeInv, Active
<1>5. ~ Active(w)'
  BY DEF Commit, Leaves, TypeInv, Active
<1>6. CASE w \in Etls
  <2>1. /\ etlCost' = [a \in Asins |-> IF a \in DOMAIN own[w] THEN costs[w][a] ELSE etlCost[a]]
        /\ etlRuns' = [a \in Asins |->
                         IF a \in DOMAIN own[w] THEN etlRuns[a] + 1 ELSE etlRuns[a]]
        /\ overtaken' = overtaken \ DOMAIN own[w]
    BY <1>6 DEF Commit
  <2>2. CostFromCsv'
    <3> SUFFICES ASSUME NEW a \in Asins, a \notin overtaken', rows'[a] # Missing
                 PROVE  rows'[a].cost = etlCost'[a]
      BY DEF CostFromCsv
    <3>1. CASE a \in DOMAIN own[w]
      BY <1>2, <1>3, <2>1, <3>1
    <3>2. CASE a \notin DOMAIN own[w]
      BY <1>3, <2>1, <3>2 DEF CostInv, CostFromCsv
    <3> QED
      BY <3>1, <3>2
  <2>3. \A v \in Workers : ReadCostOk(v)'
    <3> SUFFICES ASSUME NEW v \in Workers, Active(v)', NEW a \in DOMAIN costs'[v]
                 PROVE  /\ seenRuns'[v] <= etlRuns'[a]
                        /\ seenRuns'[v] = etlRuns'[a] /\ a \notin overtaken' =>
                             costs'[v][a] = etlCost'[a]
      BY DEF ReadCostOk
    <3>1. v # w /\ Active(v) /\ costs'[v] = costs[v] /\ a \in DOMAIN costs[v]
      BY <1>4, <1>5
    <3>2. /\ a \in Asins /\ seenRuns[v] <= etlRuns[a]
          /\ seenRuns[v] = etlRuns[a] /\ a \notin overtaken => costs[v][a] = etlCost[a]
      BY <1>0, <3>1 DEF CostInv, ReadCostOk, WriterInv, WriterOk
    <3>3. etlRuns[a] \in Nat /\ seenRuns[v] \in Nat
      BY <3>2 DEF TypeInv
    <3>4. CASE a \in DOMAIN own[w]
      BY <1>3, <2>1, <3>2, <3>3, <3>4
    <3>5. CASE a \notin DOMAIN own[w]
      BY <1>3, <2>1, <3>1, <3>2, <3>5
    <3> QED
      BY <3>4, <3>5
  <2> QED
    BY <2>2, <2>3 DEF CostInv
<1>7. CASE w \in Workers
  <2>1. /\ overtaken' = overtaken \cup {a \in DOMAIN own[w] : seenRuns[w] # etlRuns[a]}
        /\ etlCost' = etlCost /\ etlRuns' = etlRuns
    BY <1>7 DEF Commit
  <2>2. CostFromCsv'
    <3> SUFFICES ASSUME NEW a \in Asins, a \notin overtaken', rows'[a] # Missing
                 PROVE  rows'[a].cost = etlCost[a]
      BY <2>1 DEF CostFromCsv
    <3>1. CASE a \in DOMAIN own[w]
      BY <1>1, <1>2, <1>3, <1>7, <2>1, <3>1 DEF CostInv, ReadCostOk
    <3>2. CASE a \notin DOMAIN own[w]
      BY <1>3, <2>1, <3>2 DEF CostInv, CostFromCsv
    <3> QED
      BY <3>1, <3>2
  <2>3. \A v \in Workers : ReadCostOk(v)'
    BY <1>3, <1>4, <1>5, <2>1 DEF CostInv, ReadCostOk
  <2> QED
    BY <2>2, <2>3 DEF CostInv
<1> QED
  BY <1>6, <1>7 DEF Writers

LEMMA CostNext == TypeInv /\ WriterInv /\ CostInv /\ [Next]_vars => CostInv'
<1> SUFFICES ASSUME TypeInv, WriterInv, CostInv, [Next]_vars
             PROVE  CostInv'
  OBVIOUS
<1>0. Etls \subseteq Writers /\ Workers \subseteq Writers
  BY DEF Writers
<1>1. CASE UNCHANGED vars
  BY <1>1 DEF vars, CostInv, CostFromCsv, ReadCostOk, Active
<1>2. CASE \E e \in Etls : EtlStart(e)
  <2>1. PICK e \in Etls : EtlStart(e)
    BY <1>2
  <2>2. \A v \in Workers : pc'[v] = pc[v] /\ costs'[v] = costs[v]
    BY <1>0, <2>1 DEF EtlStart, TypeInv
  <2> QED
    BY <2>1, <2>2 DEF EtlStart, history, CostInv, CostFromCsv, ReadCostOk, Active
<1>3. CASE \E w \in Workers, a \in Asins : WorkerStart(w, a)
  <2>1. PICK w \in Workers, a \in Asins : WorkerStart(w, a)
    BY <1>3
  <2>2. \A v \in Workers \ {w} : /\ pc'[v] = pc[v] /\ costs'[v] = costs[v]
                                 /\ seenRuns'[v] = seenRuns[v]
    BY <1>0, <2>1 DEF WorkerStart, TypeInv
  <2>3. /\ costs'[w] = [b \in {a} |-> rows[a].cost] /\ seenRuns'[w] = etlRuns[a]
        /\ rows[a] # Missing /\ etlRuns[a] \in Nat
        /\ UNCHANGED <<rows, etlCost, etlRuns, overtaken>>
    BY <1>0, <2>1 DEF WorkerStart, TypeInv, history
  <2>4. ReadCostOk(w)'
    BY <2>3 DEF ReadCostOk, CostInv, CostFromCsv
  <2> QED
    BY <2>2, <2>3, <2>4 DEF CostInv, CostFromCsv, ReadCostOk, Active
<1>4. CASE \E w \in Writers : Fetch(w)
  <2>1. PICK w \in Writers : Fetch(w)
    BY <1>4
  <2>2. \A v \in Workers : Active(v)' => Active(v)
    BY <1>0, <2>1 DEF Fetch, TypeInv, Active
  <2> QED
    BY <2>1, <2>2 DEF Fetch, history, CostInv, CostFromCsv, ReadCostOk
<1>5. CASE \E w \in Writers : FetchFails(w) \/ Crash(w)
  <2>1. PICK w \in Writers, how \in {"done", "crashed"} :
           Leaves(w, how) /\ UNCHANGED <<rows, seenRuns, history>>
    BY <1>5 DEF FetchFails, Crash
  <2>2. \A v \in Workers : Active(v)' => Active(v) /\ costs'[v] = costs[v]
    BY <1>0, <2>1 DEF Leaves, TypeInv, Active
  <2> QED
    BY <2>1, <2>2 DEF history, CostInv, CostFromCsv, ReadCostOk
<1>6. CASE \E w \in Writers, a \in Asins : NotFound(w, a) \/ Upsert(w, a) \/ ProcessFails(w, a)
  <2>1. UNCHANGED <<rows, pc, costs, seenRuns, history>>
    BY <1>6 DEF NotFound, Upsert, ProcessFails
  <2> QED
    BY <2>1 DEF history, CostInv, CostFromCsv, ReadCostOk, Active
<1>7. CASE \E w \in Writers : Commit(w)
  BY <1>7, CostCommit
<1> QED
  BY <1>1, <1>2, <1>3, <1>4, <1>5, <1>6, <1>7, Steps

\* A refresh never loses the cost of the CSV, except by writing back one that it read
\* before the last ETL run was committed.
THEOREM CostsSurviveRefresh == Spec => []CostFromCsv
<1>1. CostInv => CostFromCsv
  BY DEF CostInv
<1> QED
  BY <1>1, Invariants, CostInit, CostNext, PTL DEF Spec
=============================================================================
