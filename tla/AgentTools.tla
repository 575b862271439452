----------------------------- MODULE AgentTools -----------------------------
(***************************************************************************)
(* The tools of the chat agent (app/agent/tools.py) as tools_node of       *)
(* app/agent/graph.py runs them for one user: what a call reads, what it   *)
(* leaves in the session's short-term state (active_filters,               *)
(* last_result_asins, resolved_entity), and what it does to the user's     *)
(* preferences, which all his sessions share.                              *)
(*                                                                         *)
(* The model's answers are arbitrary: any call with any arguments may come *)
(* next.  A call that awaits between a read and a write is two actions.    *)
(* The messages of a turn are in ChatThread, the combo planner in          *)
(* PlanCombo; here a combo is some of the candidates it is given.          *)
(***************************************************************************)
EXTENDS Naturals, Sequences, FiniteSets, Functions

CONSTANTS
    Asins,      \* ASINs a user may name
    Catalog,    \* ASINs that have a row
    Fields,     \* filter fields: min_roi, eligible_only, max_supplier_cost, ...
    ValuesOf,   \* the values of each field
    Off,        \* eligible_only = False: no condition
    Meets,      \* <<asin, field, value>>: the row meets this condition
    Limit,      \* the limit of a list
    Eligible,   \* ASINs whose row has eligible = true and a cost
    SqlResults, \* ASIN columns that some SELECT returns
    Budgets,    \* values of budget_per_unit
    Turns,
    Sessions,
    SessionOf,  \* the session of a turn
    MaxCalls,   \* bound: tool calls in one turn
    None

ASSUME ToolsAssumption ==
    /\ Catalog \subseteq Asins /\ IsFiniteSet(Catalog)
    /\ SqlResults \subseteq Seq(Asins)
    /\ Eligible \subseteq Asins
    /\ SessionOf \in [Turns -> Sessions]
    /\ None \notin Asins \cup Budgets
    /\ Limit \in Nat \ {0}
    /\ MaxCalls \in Nat

VARIABLES
    prefs,      \* the Store's document of the user
    saved,      \* short-term state in each session's latest checkpoint
    pc,         \* where each turn is: its node, or the second half of a call
    state,      \* the state a turn's round started from
    next,       \* that state with the round's updates so far
    read,       \* the preferences the current call has read
    calls,      \* calls made by a turn; bounds the instance
    offered,    \* the ASINs of the last filter or combo of a turn
    promised,   \* history: exclusions that have been confirmed
    known,      \* history: those confirmed before the current call read
    raced       \* history: two updates of the preferences have overlapped

vars == <<prefs, saved, pc, state, next, read, calls, offered, promised, known, raced>>

Args == {args \in UNION {[F -> UNION {ValuesOf[f] : f \in Fields}] : F \in SUBSET Fields} :
           \A f \in DOMAIN args : args[f] \in ValuesOf[f]}
Filters == {args \in Args : \A f \in DOMAIN args : args[f] # Off}
NoFilters == [f \in {} |-> None]

Prefs == [budget : Budgets \cup {None}, excluded : SUBSET Asins]
NoPrefs == [budget |-> None, excluded |-> {}]

\* sql is history: the list is the work of run_readonly_sql, which has no filters.
Short == [filters : Filters, last : Seq(Asins), entity : Asins \cup {None}, sql : BOOLEAN]
Blank == [filters |-> NoFilters, last |-> <<>>, entity |-> None, sql |-> FALSE]

Init ==
    /\ prefs = NoPrefs
    /\ saved = [s \in Sessions |-> Blank]
    /\ pc = [t \in Turns |-> "new"]
    /\ state = [t \in Turns |-> Blank]
    /\ next = [t \in Turns |-> Blank]
    /\ read = [t \in Turns |-> NoPrefs]
    /\ calls = [t \in Turns |-> 0]
    /\ offered = [t \in Turns |-> {}]
    /\ promised = {}
    /\ known = [t \in Turns |-> {}]
    /\ raced = FALSE

(***************************************************************************)
(* The graph around the calls.                                             *)
(***************************************************************************)
OpenTurn(t) ==
    /\ pc[t] = "new"
    /\ pc' = [pc EXCEPT ![t] = "agent"]
    /\ state' = [state EXCEPT ![t] = saved[SessionOf[t]]]
    /\ UNCHANGED <<prefs, saved, next, read, calls, offered, promised, known, raced>>

\* A run ends and its locals are gone.
Ends(t) ==
    /\ pc' = [pc EXCEPT ![t] = "ended"]
    /\ state' = [state EXCEPT ![t] = Blank]
    /\ next' = [next EXCEPT ![t] = Blank]
    /\ read' = [read EXCEPT ![t] = NoPrefs]
    /\ offered' = [offered EXCEPT ![t] = {}]
    /\ known' = [known EXCEPT ![t] = {}]

\* The model asks for tools.  The checkpoint after the node holds the turn's own
\* short-term state, whatever another turn has saved since.
AgentNode(t) ==
    /\ pc[t] = "agent"
    /\ pc' = [pc EXCEPT ![t] = "tools"]
    /\ next' = [next EXCEPT ![t] = state[t]]
    /\ saved' = [saved EXCEPT ![SessionOf[t]] = state[t]]
    /\ UNCHANGED <<prefs, state, read, calls, offered, promised, known, raced>>

\* The model answers, or asks for one round too many.
Answer(t) ==
    /\ pc[t] = "agent"
    /\ saved' = [saved EXCEPT ![SessionOf[t]] = state[t]]
    /\ Ends(t)
    /\ UNCHANGED <<prefs, calls, promised, raced>>

\* tools_node returns: the default reducer overwrites the three fields.
EndRound(t) ==
    /\ pc[t] = "tools"
    /\ state' = [state EXCEPT ![t] = next[t]]
    /\ saved' = [saved EXCEPT ![SessionOf[t]] = next[t]]
    /\ next' = [next EXCEPT ![t] = Blank]
    /\ pc' = [pc EXCEPT ![t] = "agent"]
    /\ UNCHANGED <<prefs, read, calls, offered, promised, known, raced>>

\* The run is cancelled, the model call raises or the process dies.
CutTurn(t) ==
    /\ pc[t] \notin {"new", "ended"}
    /\ Ends(t)
    /\ UNCHANGED <<prefs, saved, calls, promised, raced>>

Call(t) ==
    /\ pc[t] = "tools"
    /\ calls[t] < MaxCalls
    /\ calls' = [calls EXCEPT ![t] = @ + 1]

(***************************************************************************)
(* Calls that need the preferences first.                                  *)
(***************************************************************************)
\* Faulty variant: the preferences are read once in a turn.
ReadOnce(t) == IF calls[t] = 0 THEN prefs ELSE read[t]
GetPreferences(t) == prefs

\* get_preferences, awaited by build_filter_sql, plan_combo and update_preferences.
ReadPrefs(t, tool) ==
    /\ Call(t)
    /\ read' = [read EXCEPT ![t] = GetPreferences(t)]
    /\ known' = [known EXCEPT ![t] = promised]
    /\ offered' = [offered EXCEPT ![t] = {}]
    /\ raced' = (raced \/ (tool = "update" /\ \E u \in Turns : pc[u] = "update"))
    /\ pc' = [pc EXCEPT ![t] = tool]
    /\ UNCHANGED <<prefs, saved, state, next, promised>>

Satisfies(a, filters) == \A f \in DOMAIN filters : <<a, f, filters[f]>> \in Meets

\* {**active_filters, **args}
Merge(old, args) ==
    [f \in DOMAIN old \cup DOMAIN args |-> IF f \in DOMAIN args THEN args[f] ELSE old[f]]

\* Faulty variant: every field given is one to apply.
AllGiven(given) == given
Applied(given) == [f \in {g \in DOMAIN given : given[g] # Off} |-> given[f]]

\* build_filter_select: every condition ANDed, the exclusions on top, at most Limit
\* rows in the order of a sort column.
Lists(filters, excluded) ==
    LET matches == {a \in Catalog : Satisfies(a, filters) /\ a \notin excluded}
        size == IF Cardinality(matches) < Limit THEN Cardinality(matches) ELSE Limit
    IN  {rows \in [1 .. size -> matches] : IsInjective(rows)}

\* Faulty variant: a filter that finds nothing leaves the old list in place.
KeepList(old, rows) == IF rows = <<>> THEN old ELSE rows
NewList(old, rows) == rows

BuildFilter(t, args) ==
    /\ pc[t] = "filter"
    /\ LET filters == Applied(Merge(state[t].filters, args)) IN
       \E rows \in Lists(filters, read[t].excluded) :
         /\ next' = [next EXCEPT ![t].filters = filters,
                                 ![t].last = NewList(next[t].last, rows),
                                 ![t].sql = FALSE]
         /\ offered' = [offered EXCEPT ![t] = Range(rows)]
    /\ pc' = [pc EXCEPT ![t] = "tools"]
    /\ UNCHANGED <<prefs, saved, state, read, calls, promised, known, raced>>

Candidates(excluded) == Eligible \ excluded

\* The schema requires a budget: the fallback to the preferred one is never taken.
PlanCombo(t, combo) ==
    /\ pc[t] = "combo"
    /\ combo \subseteq Candidates(read[t].excluded)
    /\ offered' = [offered EXCEPT ![t] = combo]
    /\ pc' = [pc EXCEPT ![t] = "tools"]
    /\ UNCHANGED <<prefs, saved, state, next, read, calls, promised, known, raced>>

\* Faulty variant: the excluded list is replaced.
Replace(excluded, new) == IF new = {} THEN excluded ELSE new
AddExclusion(excluded, new) == excluded \cup new

\* The rest of update_preferences_impl: the whole document is written back.
PutPrefs(t, budget, exclude) ==
    /\ pc[t] = "update"
    /\ prefs' = [budget |-> IF budget = None THEN read[t].budget ELSE budget,
                 excluded |-> AddExclusion(read[t].excluded, exclude)]
    /\ promised' = promised \cup exclude
    /\ pc' = [pc EXCEPT ![t] = "tools"]
    /\ UNCHANGED <<saved, state, next, read, calls, offered, known, raced>>

\* Arguments that fail the schema, a database or Store error: a ToolMessage, no update.
CallFails(t) ==
    /\ pc[t] \in {"filter", "combo", "update"}
    /\ pc' = [pc EXCEPT ![t] = "tools"]
    /\ UNCHANGED <<prefs, saved, state, next, read, calls, offered, promised, known, raced>>

(***************************************************************************)
(* Calls that do not.                                                      *)
(***************************************************************************)
\* run_readonly_sql: a SELECT that returns ASINs; every other one leaves no trace.
RunReadonlySql(t, rows) ==
    /\ Call(t)
    /\ rows # <<>>
    /\ next' = [next EXCEPT ![t].last = rows, ![t].sql = TRUE]
    /\ UNCHANGED <<prefs, saved, pc, state, read, offered, promised, known, raced>>

\* resolve_reference: the ASINs the arguments can stand for, none for an error.
ResolveOrdinal(n, st) == IF n \in DOMAIN st.last THEN {st.last[n]} ELSE {}
ResolvePronoun(st) ==
    IF st.entity # None THEN {st.entity}
    ELSE IF Len(st.last) = 1 THEN {st.last[1]} ELSE {}

\* lookup_asin against the state from before the round; a row must exist.
LookupAsin(t, a) ==
    /\ Call(t)
    /\ a \in Catalog
    /\ next' = [next EXCEPT ![t].entity = a]
    /\ UNCHANGED <<prefs, saved, pc, state, read, offered, promised, known, raced>>

ResetTopic(t) ==
    /\ Call(t)
    /\ next' = [next EXCEPT ![t] = Blank]
    /\ UNCHANGED <<prefs, saved, pc, state, read, offered, promised, known, raced>>

RunCall(t) ==
    \/ \E tool \in {"filter", "combo", "update"} : ReadPrefs(t, tool)
    \/ \E args \in Args : BuildFilter(t, args)
    \/ \E combo \in SUBSET Eligible : PlanCombo(t, combo)
    \/ \E budget \in Budgets \cup {None}, exclude \in {{}} \cup {{a} : a \in Asins} :
         PutPrefs(t, budget, exclude)
    \/ CallFails(t)
    \/ \E rows \in SqlResults : RunReadonlySql(t, rows)
    \/ \E a \in Asins : LookupAsin(t, a)
    \/ \E n \in 1 .. Len(state[t].last) : \E a \in ResolveOrdinal(n, state[t]) : LookupAsin(t, a)
    \/ \E a \in ResolvePronoun(state[t]) : LookupAsin(t, a)
    \/ ResetTopic(t)

Next ==
    \E t \in Turns :
        \/ OpenTurn(t)
        \/ AgentNode(t)
        \/ Answer(t)
        \/ EndRound(t)
        \/ CutTurn(t)
        \/ RunCall(t)

Spec == Init /\ [][Next]_vars

(***************************************************************************)
(* Properties.                                                             *)
(***************************************************************************)
\* Every value has its type; in particular no filter that is switched off is kept.
TypeOK ==
    /\ prefs \in Prefs
    /\ saved \in [Sessions -> Short]
    /\ pc \in [Turns -> {"new", "agent", "tools", "filter", "combo", "update", "ended"}]
    /\ state \in [Turns -> Short]
    /\ next \in [Turns -> Short]
    /\ read \in [Turns -> Prefs]
    /\ calls \in [Turns -> 0 .. MaxCalls]
    /\ offered \in [Turns -> SUBSET Asins]
    /\ promised \in SUBSET Asins
    /\ known \in [Turns -> SUBSET Asins]
    /\ raced \in BOOLEAN

\* "Append, not overwrite": unless two sessions update the preferences at once,
\* an exclusion the user was told of is never lost, whatever call fails or is cut
\* between the read of the document and its write.
ExclusionsHold == ~raced => promised \subseteq prefs.excluded

\* Until two updates overlap, the two halves of update_preferences_impl are one step of
\* the Preferences, between whatever other calls, failures and cuts: nothing confirmed
\* is lost, also not a budget that another session has set.
Document == INSTANCE Preferences WITH document <- prefs, confirmed <- promised
ImplementsPreferences ==
    /\ Document!PreferencesInit
    /\ [][Document!PreferencesNext \/ raced']_<<prefs, promised>>

\* "All later recommendations must exclude it": no list or combo of any session
\* holds an ASIN whose exclusion was confirmed before the call read the preferences,
\* even one of the same round.
ListsHonourExclusions == ~raced => \A t \in Turns : offered[t] \cap known[t] = {}

\* The list that "the second one" counts in always meets the filters the next
\* question will be added to, also when several calls of a round set them and
\* turns of one session overwrite each other's state.  A list from a SELECT has
\* no filters.
FiltersExplainList ==
    \A s \in Sessions : ~saved[s].sql =>
        \A i \in DOMAIN saved[s].last : Satisfies(saved[s].last[i], saved[s].filters)
=============================================================================
