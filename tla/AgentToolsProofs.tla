-------------------------- MODULE AgentToolsProofs --------------------------
(***************************************************************************)
(* Theorems about AgentTools for any number of turns, sessions, ASINs,     *)
(* filters and calls.                                                      *)
(*                                                                         *)
(* While no two updates of the preferences have overlapped, whoever is     *)
(* between the read and the write of an update is alone there, so what he  *)
(* has read still holds every confirmed exclusion (PrefsInv), is even the  *)
(* document as it stands (CurrentInv), and his write is one step of the    *)
(* Preferences.  The list and the filters of a short-term state are always *)
(* set together, so they stay explained wherever the state is copied to    *)
(* (ExplainInv).                                                           *)
(***************************************************************************)
EXTENDS AgentTools, FiniteSetTheorems, SequenceTheorems, TLAPS

USE DEF GetPreferences, AddExclusion, NewList, Candidates

\* A list holds rows that meet the filters and are not excluded.
LEMMA ListFacts ==
  ASSUME NEW filters, NEW excluded, NEW rows \in Lists(filters, excluded)
  PROVE  /\ rows \in Seq(Asins)
         /\ Range(rows) \subseteq Asins \ excluded
         /\ \A i \in DOMAIN rows : Satisfies(rows[i], filters)
<1> DEFINE matches == {a \in Catalog : Satisfies(a, filters) /\ a \notin excluded}
           size == IF Cardinality(matches) < Limit THEN Cardinality(matches) ELSE Limit
<1>1. size \in Nat
  <2>1. IsFiniteSet(matches)
    BY FS_Subset, ToolsAssumption
  <2> QED
    BY <2>1, FS_CardinalityType, ToolsAssumption
<1>2. rows \in [1 .. size -> matches]
  BY DEF Lists
<1>3. matches \subseteq Asins
  BY ToolsAssumption
<1>4. rows \in [1 .. size -> Asins]
  BY <1>2, <1>3
<1> HIDE DEF matches, size
<1>5. rows \in Seq(Asins)
  BY <1>1, <1>4, IsASeq
<1>6. \A i \in DOMAIN rows : rows[i] \in matches
  BY <1>2
<1>7. \A a \in matches : a \in Asins \ excluded /\ Satisfies(a, filters)
  BY <1>3 DEF matches
<1> QED
  BY <1>5, <1>6, <1>7 DEF Range

\* What is left of old and new filters together are filters, none switched off.
LEMMA FiltersMerge ==
  ASSUME NEW old \in Filters, NEW args \in Args
  PROVE  Applied(Merge(old, args)) \in Filters
<1> DEFINE All == UNION {ValuesOf[f] : f \in Fields}
           given == Merge(old, args)
           on == Applied(given)
<1>1. /\ DOMAIN old \subseteq Fields /\ DOMAIN args \subseteq Fields
      /\ \A f \in DOMAIN old : old[f] \in ValuesOf[f]
      /\ \A f \in DOMAIN args : args[f] \in ValuesOf[f]
  BY DEF Filters, Args
<1>2. /\ DOMAIN given \subseteq Fields
      /\ \A f \in DOMAIN given : given[f] \in ValuesOf[f]
  BY <1>1 DEF Merge
<1>3. /\ DOMAIN on \subseteq Fields
      /\ \A f \in DOMAIN on : on[f] \in ValuesOf[f] /\ on[f] # Off
  BY <1>2 DEF Applied
<1>4. on \in [DOMAIN on -> All]
  <2>1. \A f \in DOMAIN on : on[f] \in All
    BY <1>3
  <2>2. on = [f \in DOMAIN on |-> on[f]]
    BY DEF Applied
  <2> QED
    BY <2>1, <2>2
<1>5. on \in Args
  <2>1. DOMAIN on \in SUBSET Fields
    BY <1>3
  <2> HIDE DEF on
  <2> QED
    BY <1>3, <1>4, <2>1 DEF Args
<1> QED
  BY <1>3, <1>5 DEF Filters

LEMMA BlankIsShort == Blank \in Short /\ NoPrefs \in Prefs
<1>1. NoFilters \in Filters
  <2>1. NoFilters \in [{} -> UNION {ValuesOf[f] : f \in Fields}] /\ DOMAIN NoFilters = {}
    BY DEF NoFilters
  <2>2. {} \in SUBSET Fields
    OBVIOUS
  <2>3. NoFilters \in Args
    BY <2>1, <2>2 DEF Args
  <2> QED
    BY <2>1, <2>3 DEF Filters
<1> QED
  BY <1>1 DEF Blank, Short, NoPrefs, Prefs

(***************************************************************************)
(* The actions, as Next names them.                                        *)
(***************************************************************************)
LEMMA NextActions ==
  ASSUME Next
  PROVE  \E t \in Turns :
           \/ OpenTurn(t) \/ AgentNode(t) \/ Answer(t) \/ EndRound(t) \/ CutTurn(t)
           \/ \E tool \in {"filter", "combo", "update"} : ReadPrefs(t, tool)
           \/ \E args \in Args : BuildFilter(t, args)
           \/ \E combo \in SUBSET Eligible : PlanCombo(t, combo)
           \/ \E budget \in Budgets \cup {None}, exclude \in SUBSET Asins :
                PutPrefs(t, budget, exclude)
           \/ CallFails(t)
           \/ \E rows \in SqlResults : RunReadonlySql(t, rows)
           \/ \E a \in Catalog : LookupAsin(t, a)
           \/ ResetTopic(t)
<1>1. \A t \in Turns : \A a : LookupAsin(t, a) => a \in Catalog
  BY DEF LookupAsin
<1>2. ({{}} \cup {{a} : a \in Asins}) \subseteq SUBSET Asins
  OBVIOUS
<1> QED
  BY <1>1, <1>2 DEF Next, RunCall

(***************************************************************************)
(* Types.                                                                  *)
(***************************************************************************)
LEMMA ShortUpdates ==
  ASSUME NEW st \in Short
  PROVE  /\ \A rows \in Seq(Asins) : [st EXCEPT !.last = rows, !.sql = TRUE] \in Short
         /\ \A rows \in Seq(Asins), filters \in Filters :
              [st EXCEPT !.filters = filters, !.last = rows, !.sql = FALSE] \in Short
         /\ \A a \in Asins : [st EXCEPT !.entity = a] \in Short
BY DEF Short

LEMMA TypeInit == Init => TypeOK
<1> SUFFICES ASSUME Init
             PROVE  TypeOK
  OBVIOUS
<1>1. 0 \in 0 .. MaxCalls
  BY ToolsAssumption
<1>2. Blank \in Short /\ NoPrefs \in Prefs
  BY BlankIsShort
<1> QED
  BY <1>1, <1>2 DEF Init, TypeOK

LEMMA TypeNext == TypeOK /\ [Next]_vars => TypeOK'
<1> SUFFICES ASSUME TypeOK, [Next]_vars
             PROVE  TypeOK'
  OBVIOUS
<1> USE BlankIsShort, ToolsAssumption
<1>1. CASE UNCHANGED vars
  BY <1>1 DEF vars, TypeOK
<1>2. CASE Next
  <2>0. PICK t \in Turns :
           \/ OpenTurn(t) \/ AgentNode(t) \/ Answer(t) \/ EndRound(t) \/ CutTurn(t)
           \/ \E tool \in {"filter", "combo", "update"} : ReadPrefs(t, tool)
           \/ \E args \in Args : BuildFilter(t, args)
           \/ \E combo \in SUBSET Eligible : PlanCombo(t, combo)
           \/ \E budget \in Budgets \cup {None}, exclude \in SUBSET Asins :
                PutPrefs(t, budget, exclude)
           \/ CallFails(t)
           \/ \E rows \in SqlResults : RunReadonlySql(t, rows)
           \/ \E a \in Catalog : LookupAsin(t, a)
           \/ ResetTopic(t)
    BY <1>2, NextActions
  <2>1. CASE OpenTurn(t)
    BY <2>1 DEF OpenTurn, TypeOK
  <2>2. CASE AgentNode(t)
    BY <2>2 DEF AgentNode, TypeOK
  <2>3. CASE Answer(t)
    BY <2>3 DEF Answer, Ends, TypeOK
  <2>4. CASE EndRound(t)
    BY <2>4 DEF EndRound, TypeOK
  <2>5. CASE CutTurn(t)
    BY <2>5 DEF CutTurn, Ends, TypeOK
  <2>6. CASE \E tool \in {"filter", "combo", "update"} : ReadPrefs(t, tool)
    BY <2>6 DEF ReadPrefs, Call, TypeOK
  <2>7. CASE \E args \in Args : BuildFilter(t, args)
    <3>1. PICK args \in Args : BuildFilter(t, args)
      BY <2>7
    <3> DEFINE filters == Applied(Merge(state[t].filters, args))
    <3>2. filters \in Filters
      BY FiltersMerge DEF TypeOK, Short
    <3>3. PICK rows \in Lists(filters, read[t].excluded) :
            /\ next' = [next EXCEPT ![t].filters = filters, ![t].last = rows,
                                    ![t].sql = FALSE]
            /\ offered' = [offered EXCEPT ![t] = Range(rows)]
      BY <3>1 DEF BuildFilter
    <3>4. rows \in Seq(Asins) /\ Range(rows) \subseteq Asins
      BY ListFacts
    <3>5. [next[t] EXCEPT !.filters = filters, !.last = rows, !.sql = FALSE] \in Short
      BY <3>2, <3>4, ShortUpdates DEF TypeOK
    <3>6. next' = [next EXCEPT ![t] = [next[t] EXCEPT !.filters = filters, !.last = rows,
                                                      !.sql = FALSE]]
      BY <3>3
    <3>7. next' \in [Turns -> Short]
      <4> HIDE DEF filters
      <4> QED
        BY <3>5, <3>6 DEF TypeOK
    <3>8. offered' \in [Turns -> SUBSET Asins]
      BY <3>3, <3>4 DEF TypeOK
    <3> QED
      BY <3>1, <3>7, <3>8 DEF BuildFilter, TypeOK
  <2>8. CASE \E combo \in SUBSET Eligible : PlanCombo(t, combo)
    BY <2>8 DEF PlanCombo, TypeOK
  <2>9. CASE \E budget \in Budgets \cup {None}, exclude \in SUBSET Asins :
               PutPrefs(t, budget, exclude)
    BY <2>9 DEF PutPrefs, TypeOK, Prefs
  <2>10. CASE CallFails(t)
    BY <2>10 DEF CallFails, TypeOK
  <2>11. CASE \E rows \in SqlResults : RunReadonlySql(t, rows)
    <3>1. PICK rows \in Seq(Asins) : RunReadonlySql(t, rows)
      BY <2>11
    <3>2. next' = [next EXCEPT ![t] = [next[t] EXCEPT !.last = rows, !.sql = TRUE]]
      BY <3>1 DEF RunReadonlySql
    <3>3. next' \in [Turns -> Short]
      BY <3>2, ShortUpdates DEF TypeOK
    <3> QED
      BY <3>1, <3>3 DEF RunReadonlySql, Call, TypeOK
  <2>12. CASE \E a \in Catalog : LookupAsin(t, a)
    <3>1. PICK a \in Asins : LookupAsin(t, a)
      BY <2>12
    <3>2. next' = [next EXCEPT ![t] = [next[t] EXCEPT !.entity = a]]
      BY <3>1 DEF LookupAsin
    <3>3. next' \in [Turns -> Short]
      BY <3>2, ShortUpdates DEF TypeOK
    <3> QED
      BY <3>1, <3>3 DEF LookupAsin, Call, TypeOK
  <2>13. CASE ResetTopic(t)
    BY <2>13 DEF ResetTopic, Call, TypeOK
  <2> QED
    BY <2>0, <2>1, <2>2, <2>3, <2>4, <2>5, <2>6, <2>7, <2>8, <2>9, <2>10, <2>11, <2>12, <2>13
<1> QED
  BY <1>1, <1>2 DEF vars

\* Every reachable state is well typed; no stored filter is one that is switched off.
THEOREM TypeCorrect == Spec => []TypeOK
BY TypeInit, TypeNext, PTL DEF Spec

(***************************************************************************)
(* The preferences.                                                        *)
(***************************************************************************)
\* While no two updates have overlapped: whoever has read the preferences still
\* has what was confirmed before, and the one turn in an update has everything.
PrefsInv ==
    ~raced =>
        /\ promised \subseteq prefs.excluded
        /\ \A t \in Turns : pc[t] \in {"filter", "combo", "update"} =>
              known[t] \subseteq read[t].excluded
        /\ \A t \in Turns : pc[t] = "update" => promised \subseteq read[t].excluded
        /\ \A t, u \in Turns : pc[t] = "update" /\ pc[u] = "update" => t = u
        /\ \A t \in Turns : offered[t] \cap known[t] = {}

LEMMA PrefsInit == Init => PrefsInv
BY DEF Init, PrefsInv

LEMMA PrefsNext == TypeOK /\ PrefsInv /\ [Next]_vars => PrefsInv'
<1> SUFFICES ASSUME TypeOK, PrefsInv, [Next]_vars
             PROVE  PrefsInv'
  OBVIOUS
<1>1. CASE UNCHANGED vars
  BY <1>1 DEF vars, PrefsInv
<1>2. CASE Next
  <2>0. PICK t \in Turns :
           \/ OpenTurn(t) \/ AgentNode(t) \/ Answer(t) \/ EndRound(t) \/ CutTurn(t)
           \/ \E tool \in {"filter", "combo", "update"} : ReadPrefs(t, tool)
           \/ \E args \in Args : BuildFilter(t, args)
           \/ \E combo \in SUBSET Eligible : PlanCombo(t, combo)
           \/ \E budget \in Budgets \cup {None}, exclude \in SUBSET Asins :
                PutPrefs(t, budget, exclude)
           \/ CallFails(t)
           \/ \E rows \in SqlResults : RunReadonlySql(t, rows)
           \/ \E a \in Catalog : LookupAsin(t, a)
           \/ ResetTopic(t)
    BY <1>2, NextActions
  <2>1. CASE OpenTurn(t)
    BY <2>1 DEF OpenTurn, TypeOK, PrefsInv
  <2>2. CASE AgentNode(t)
    BY <2>2 DEF AgentNode, TypeOK, PrefsInv
  <2>3. CASE Answer(t)
    BY <2>3 DEF Answer, Ends, TypeOK, PrefsInv
  <2>4. CASE EndRound(t)
    BY <2>4 DEF EndRound, TypeOK, PrefsInv
  <2>5. CASE CutTurn(t)
    BY <2>5 DEF CutTurn, Ends, TypeOK, PrefsInv
  <2>6. CASE \E tool \in {"filter", "combo", "update"} : ReadPrefs(t, tool)
    <3>1. PICK tool \in {"filter", "combo", "update"} : ReadPrefs(t, tool)
      BY <2>6
    <3>2. /\ pc[t] = "tools" /\ pc' = [pc EXCEPT ![t] = tool]
          /\ read' = [read EXCEPT ![t] = prefs]
          /\ known' = [known EXCEPT ![t] = promised]
          /\ offered' = [offered EXCEPT ![t] = {}]
          /\ UNCHANGED <<prefs, promised>>
      BY <3>1 DEF ReadPrefs, Call
    <3>3. ~raced' => /\ ~raced
                     /\ tool = "update" => \A u \in Turns : pc[u] # "update"
      BY <3>1, Zenon DEF ReadPrefs
    <3> QED
      BY <3>2, <3>3 DEF TypeOK, PrefsInv
  <2>7. CASE \E args \in Args : BuildFilter(t, args)
    <3>1. PICK args \in Args : BuildFilter(t, args)
      BY <2>7
    <3> DEFINE filters == Applied(Merge(state[t].filters, args))
    <3>2. PICK rows \in Lists(filters, read[t].excluded) :
            offered' = [offered EXCEPT ![t] = Range(rows)]
      BY <3>1 DEF BuildFilter
    <3>3. Range(rows) \cap read[t].excluded = {}
      BY ListFacts
    <3> HIDE DEF filters
    <3>4. /\ pc[t] = "filter" /\ pc' = [pc EXCEPT ![t] = "tools"]
          /\ UNCHANGED <<prefs, read, promised, known, raced>>
      BY <3>1 DEF BuildFilter
    <3> QED
      BY <3>2, <3>3, <3>4 DEF TypeOK, PrefsInv
  <2>8. CASE \E combo \in SUBSET Eligible : PlanCombo(t, combo)
    BY <2>8 DEF PlanCombo, TypeOK, PrefsInv
  <2>9. CASE \E budget \in Budgets \cup {None}, exclude \in SUBSET Asins :
               PutPrefs(t, budget, exclude)
    BY <2>9 DEF PutPrefs, TypeOK, PrefsInv
  <2>10. CASE CallFails(t)
    BY <2>10 DEF CallFails, TypeOK, PrefsInv
  <2>11. CASE \E rows \in SqlResults : RunReadonlySql(t, rows)
    BY <2>11 DEF RunReadonlySql, PrefsInv
  <2>12. CASE \E a \in Catalog : LookupAsin(t, a)
    BY <2>12 DEF LookupAsin, PrefsInv
  <2>13. CASE ResetTopic(t)
    BY <2>13 DEF ResetTopic, PrefsInv
  <2> QED
    BY <2>0, <2>1, <2>2, <2>3, <2>4, <2>5, <2>6, <2>7, <2>8, <2>9, <2>10, <2>11, <2>12, <2>13
<1> QED
  BY <1>1, <1>2 DEF vars

\* Unless two sessions update the preferences at once, no confirmed exclusion is
\* lost, whatever is cut or fails between the read and the write.
THEOREM ExclusionsAreKept == Spec => []ExclusionsHold
<1>1. PrefsInv => ExclusionsHold
  BY DEF PrefsInv, ExclusionsHold
<1> QED
  BY <1>1, TypeInit, TypeNext, PrefsInit, PrefsNext, PTL DEF Spec

\* Unless two sessions update the preferences at once, no list or combo holds an
\* ASIN whose exclusion was confirmed before its call read them.
THEOREM ListsAreClean == Spec => []ListsHonourExclusions
<1>1. PrefsInv => ListsHonourExclusions
  BY DEF PrefsInv, ListsHonourExclusions
<1> QED
  BY <1>1, TypeInit, TypeNext, PrefsInit, PrefsNext, PTL DEF Spec

(***************************************************************************)
(* Filters and lists.                                                      *)
(***************************************************************************)
Explained(st) ==
    ~st.sql => \A i \in DOMAIN st.last : Satisfies(st.last[i], st.filters)

\* Every copy of a short-term state is explained, wherever it is.
ExplainInv ==
    /\ \A s \in Sessions : Explained(saved[s])
    /\ \A t \in Turns : Explained(state[t]) /\ Explained(next[t])

LEMMA BlankIsExplained == Explained(Blank)
BY DEF Blank, Explained

LEMMA ExplainInit == Init => ExplainInv
BY BlankIsExplained DEF Init, ExplainInv

LEMMA ExplainNext == TypeOK /\ ExplainInv /\ [Next]_vars => ExplainInv'
<1> SUFFICES ASSUME TypeOK, ExplainInv, [Next]_vars
             PROVE  ExplainInv'
  OBVIOUS
<1>0. \A t \in Turns : SessionOf[t] \in Sessions
  BY ToolsAssumption
<1>1. CASE UNCHANGED vars
  BY <1>1 DEF vars, ExplainInv
<1>2. CASE Next
  <2>0. PICK t \in Turns :
           \/ OpenTurn(t) \/ AgentNode(t) \/ Answer(t) \/ EndRound(t) \/ CutTurn(t)
           \/ \E tool \in {"filter", "combo", "update"} : ReadPrefs(t, tool)
           \/ \E args \in Args : BuildFilter(t, args)
           \/ \E combo \in SUBSET Eligible : PlanCombo(t, combo)
           \/ \E budget \in Budgets \cup {None}, exclude \in SUBSET Asins :
                PutPrefs(t, budget, exclude)
           \/ CallFails(t)
           \/ \E rows \in SqlResults : RunReadonlySql(t, rows)
           \/ \E a \in Catalog : LookupAsin(t, a)
           \/ ResetTopic(t)
    BY <1>2, NextActions
  <2>1. CASE OpenTurn(t)
    BY <1>0, <2>1 DEF OpenTurn, TypeOK, ExplainInv
  <2>2. CASE AgentNode(t)
    BY <1>0, <2>2 DEF AgentNode, TypeOK, ExplainInv
  <2>3. CASE Answer(t)
    BY <1>0, <2>3, BlankIsExplained DEF Answer, Ends, TypeOK, ExplainInv
  <2>4. CASE EndRound(t)
    BY <1>0, <2>4, BlankIsExplained DEF EndRound, TypeOK, ExplainInv
  <2>5. CASE CutTurn(t)
    BY <2>5, BlankIsExplained DEF CutTurn, Ends, TypeOK, ExplainInv
  <2>6. CASE \E tool \in {"filter", "combo", "update"} : ReadPrefs(t, tool)
    BY <2>6 DEF ReadPrefs, ExplainInv
  <2>7. CASE \E args \in Args : BuildFilter(t, args)
    <3>1. PICK args \in Args : BuildFilter(t, args)
      BY <2>7
    <3> DEFINE filters == Applied(Merge(state[t].filters, args))
    <3>2. PICK rows \in Lists(filters, read[t].excluded) :
            next' = [next EXCEPT ![t].filters = filters, ![t].last = rows,
                                 ![t].sql = FALSE]
      BY <3>1 DEF BuildFilter
    <3>3. \A i \in DOMAIN rows : Satisfies(rows[i], filters)
      BY ListFacts
    <3> HIDE DEF filters
    <3>4. next'[t].last = rows /\ next'[t].filters = filters
      BY <3>2 DEF TypeOK, Short
    <3>5. Explained(next'[t])
      BY <3>3, <3>4 DEF Explained
    <3>6. \A u \in Turns \ {t} : next'[u] = next[u]
      BY <3>2 DEF TypeOK
    <3> QED
      BY <3>1, <3>5, <3>6 DEF BuildFilter, ExplainInv
  <2>8. CASE \E combo \in SUBSET Eligible : PlanCombo(t, combo)
    BY <2>8 DEF PlanCombo, ExplainInv
  <2>9. CASE \E budget \in Budgets \cup {None}, exclude \in SUBSET Asins :
               PutPrefs(t, budget, exclude)
    BY <2>9 DEF PutPrefs, ExplainInv
  <2>10. CASE CallFails(t)
    BY <2>10 DEF CallFails, ExplainInv
  <2>11. CASE \E rows \in SqlResults : RunReadonlySql(t, rows)
    <3>1. PICK rows \in SqlResults : RunReadonlySql(t, rows)
      BY <2>11
    <3>2. next'[t].sql
      BY <3>1 DEF RunReadonlySql, TypeOK, Short
    <3>3. \A u \in Turns \ {t} : next'[u] = next[u]
      BY <3>1 DEF RunReadonlySql, TypeOK
    <3> QED
      BY <3>1, <3>2, <3>3 DEF RunReadonlySql, ExplainInv, Explained
  <2>12. CASE \E a \in Catalog : LookupAsin(t, a)
    <3>1. PICK a \in Catalog : LookupAsin(t, a)
      BY <2>12
    <3>2. /\ next'[t].sql = next[t].sql /\ next'[t].last = next[t].last
          /\ next'[t].filters = next[t].filters
      BY <3>1 DEF LookupAsin, TypeOK, Short
    <3>3. \A u \in Turns \ {t} : next'[u] = next[u]
      BY <3>1 DEF LookupAsin, TypeOK
    <3> QED
      BY <3>1, <3>2, <3>3 DEF LookupAsin, ExplainInv, Explained
  <2>13. CASE ResetTopic(t)
    BY <2>13, BlankIsExplained DEF ResetTopic, TypeOK, ExplainInv
  <2> QED
    BY <2>0, <2>1, <2>2, <2>3, <2>4, <2>5, <2>6, <2>7, <2>8, <2>9, <2>10, <2>11, <2>12, <2>13
<1> QED
  BY <1>1, <1>2 DEF vars

\* The list a later question counts in always meets the filters it is added to.
THEOREM FiltersExplain == Spec => []FiltersExplainList
<1>1. ExplainInv => FiltersExplainList
  BY DEF ExplainInv, Explained, FiltersExplainList
<1> QED
  BY <1>1, TypeInit, TypeNext, ExplainInit, ExplainNext, PTL DEF Spec

(***************************************************************************)
(* The preferences as one document.                                        *)
(***************************************************************************)
\* Until two updates overlap, an update writes back the document it would read now.
CurrentInv ==
    ~raced =>
        /\ \A t \in Turns : pc[t] = "update" => read[t] = prefs
        /\ \A t, u \in Turns : pc[t] = "update" /\ pc[u] = "update" => t = u

LEMMA CurrentInit == Init => CurrentInv
BY DEF Init, CurrentInv

\* What the actions do to the preferences and to the updates that are under way.
PrefsMove(t) ==
    \/ /\ UNCHANGED <<prefs, promised, raced>>
       /\ \A u \in Turns : pc'[u] = "update" => pc[u] = "update" /\ read'[u] = read[u]
    \/ /\ UNCHANGED <<prefs, promised>>
       /\ raced' = (raced \/ \E u \in Turns : pc[u] = "update")
       /\ read'[t] = prefs
       /\ \A u \in Turns \ {t} : pc'[u] = pc[u] /\ read'[u] = read[u]
    \/ /\ pc[t] = "update" /\ pc'[t] = "tools" /\ UNCHANGED <<read, raced>>
       /\ \A u \in Turns \ {t} : pc'[u] = pc[u]
       /\ \E budget \in Budgets \cup {None}, exclude \in SUBSET Asins :
            /\ prefs' = [budget |-> IF budget = None THEN read[t].budget ELSE budget,
                         excluded |-> read[t].excluded \cup exclude]
            /\ promised' = promised \cup exclude

LEMMA PrefsMoves == TypeOK /\ Next => \E t \in Turns : PrefsMove(t)
<1> SUFFICES ASSUME TypeOK, Next
             PROVE  \E t \in Turns : PrefsMove(t)
  OBVIOUS
<1>0. PICK t \in Turns :
         \/ OpenTurn(t) \/ AgentNode(t) \/ Answer(t) \/ EndRound(t) \/ CutTurn(t)
         \/ \E tool \in {"filter", "combo", "update"} : ReadPrefs(t, tool)
         \/ \E args \in Args : BuildFilter(t, args)
         \/ \E combo \in SUBSET Eligible : PlanCombo(t, combo)
         \/ \E budget \in Budgets \cup {None}, exclude \in SUBSET Asins :
              PutPrefs(t, budget, exclude)
         \/ CallFails(t)
         \/ \E rows \in SqlResults : RunReadonlySql(t, rows)
         \/ \E a \in Catalog : LookupAsin(t, a)
         \/ ResetTopic(t)
  BY NextActions
<1>1. CASE OpenTurn(t) \/ AgentNode(t) \/ EndRound(t)
  BY <1>1 DEF OpenTurn, AgentNode, EndRound, TypeOK, PrefsMove
<1>2. CASE Answer(t) \/ CutTurn(t)
  <2>1. /\ UNCHANGED <<prefs, promised, raced>>
        /\ pc' = [pc EXCEPT ![t] = "ended"] /\ read' = [read EXCEPT ![t] = NoPrefs]
    BY <1>2 DEF Answer, CutTurn, Ends
  <2> QED
    BY <2>1 DEF TypeOK, PrefsMove
<1>3. CASE \E tool \in {"filter", "combo", "update"} : ReadPrefs(t, tool)
  <2>1. PICK tool \in {"filter", "combo", "update"} : ReadPrefs(t, tool)
    BY <1>3
  <2>2. /\ pc[t] = "tools" /\ pc' = [pc EXCEPT ![t] = tool]
        /\ read' = [read EXCEPT ![t] = prefs] /\ UNCHANGED <<prefs, promised>>
    BY <2>1 DEF ReadPrefs, Call
  <2>3. raced' = (raced \/ (tool = "update" /\ \E u \in Turns : pc[u] = "update"))
    BY <2>1 DEF ReadPrefs
  <2>4. CASE tool = "update"
    <3>1. raced' = (raced \/ \E u \in Turns : pc[u] = "update")
      BY <2>3, <2>4, Zenon
    <3> QED
      BY <2>2, <3>1 DEF TypeOK, PrefsMove
  <2>5. CASE tool # "update"
    <3>1. raced' = raced
      BY <2>3, <2>5 DEF TypeOK
    <3>2. \A u \in Turns : pc'[u] = "update" => pc[u] = "update" /\ read'[u] = read[u]
      BY <2>2, <2>5 DEF TypeOK
    <3> QED
      BY <2>2, <3>1, <3>2 DEF PrefsMove
  <2> QED
    BY <2>4, <2>5
<1>4. CASE \/ \E args \in Args : BuildFilter(t, args)
           \/ \E combo \in SUBSET Eligible : PlanCombo(t, combo)
           \/ CallFails(t)
  <2>1. /\ UNCHANGED <<prefs, promised, raced, read>>
        /\ pc' = [pc EXCEPT ![t] = "tools"]
    BY <1>4 DEF BuildFilter, PlanCombo, CallFails
  <2> QED
    BY <2>1 DEF TypeOK, PrefsMove
<1>5. CASE \E budget \in Budgets \cup {None}, exclude \in SUBSET Asins :
             PutPrefs(t, budget, exclude)
  <2>1. /\ pc[t] = "update" /\ pc' = [pc EXCEPT ![t] = "tools"]
        /\ UNCHANGED <<read, raced>>
    BY <1>5 DEF PutPrefs
  <2>2. \E budget \in Budgets \cup {None}, exclude \in SUBSET Asins :
           /\ prefs' = [budget |-> IF budget = None THEN read[t].budget ELSE budget,
                        excluded |-> read[t].excluded \cup exclude]
           /\ promised' = promised \cup exclude
    BY <1>5 DEF PutPrefs
  <2> QED
    BY <2>1, <2>2 DEF TypeOK, PrefsMove
<1>6. CASE \/ \E rows \in SqlResults : RunReadonlySql(t, rows)
           \/ \E a \in Catalog : LookupAsin(t, a)
           \/ ResetTopic(t)
  BY <1>6 DEF RunReadonlySql, LookupAsin, ResetTopic, PrefsMove
<1> QED
  BY <1>0, <1>1, <1>2, <1>3, <1>4, <1>5, <1>6

LEMMA CurrentNext == TypeOK /\ CurrentInv /\ [Next]_vars => CurrentInv'
<1> SUFFICES ASSUME TypeOK, CurrentInv, [Next]_vars
             PROVE  CurrentInv'
  OBVIOUS
<1>1. CASE UNCHANGED vars
  BY <1>1 DEF vars, CurrentInv
<1>2. CASE Next
  BY <1>2, PrefsMoves DEF PrefsMove, CurrentInv
<1> QED
  BY <1>1, <1>2

\* Until two updates of a user overlap, AgentTools implements the Preferences.
THEOREM ToolsImplementPreferences == Spec => ImplementsPreferences
<1>1. Init => Document!PreferencesInit
  BY DEF Init, NoPrefs, Document!PreferencesInit
<1>2. TypeOK /\ CurrentInv /\ [Next]_vars
        => [Document!PreferencesNext \/ raced']_<<prefs, promised>>
  <2> SUFFICES ASSUME TypeOK, CurrentInv, [Next]_vars, ~ raced'
               PROVE  Document!PreferencesNext \/ UNCHANGED <<prefs, promised>>
    OBVIOUS
  <2>1. CASE UNCHANGED vars
    BY <2>1 DEF vars
  <2>2. CASE Next
    BY <2>2, PrefsMoves DEF PrefsMove, CurrentInv, Document!PreferencesNext, Document!Update
  <2> QED
    BY <2>1, <2>2
<1> QED
  BY <1>1, <1>2, CurrentInit, CurrentNext, TypeInit, TypeNext, PTL
     DEF Spec, ImplementsPreferences
=============================================================================
