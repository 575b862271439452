---------------------------- MODULE Preferences ----------------------------
(***************************************************************************)
(* What update_preferences promises the user: one document that every call *)
(* of every session works on, changed by one step per confirmed call.      *)
(*   - an exclusion is added to those there are, never in their place;     *)
(*   - a field that a call does not give keeps its value;                  *)
(*   - a call that fails or is cut changes nothing.                        *)
(* Reading before writing does not show.  Module AgentTools implements     *)
(* this specification until two updates of one user overlap.               *)
(***************************************************************************)
CONSTANTS
    Asins,
    Budgets,
    None

VARIABLES
    document,   \* the preferences
    confirmed   \* the exclusions the user has been told of

preferencesVars == <<document, confirmed>>

PreferencesInit ==
    /\ document = [budget |-> None, excluded |-> {}]
    /\ confirmed = {}

Update(budget, exclude) ==
    /\ document' = [budget |-> IF budget = None THEN document.budget ELSE budget,
                    excluded |-> document.excluded \cup exclude]
    /\ confirmed' = confirmed \cup exclude

PreferencesNext ==
    \E budget \in Budgets \cup {None}, exclude \in SUBSET Asins : Update(budget, exclude)
=============================================================================
