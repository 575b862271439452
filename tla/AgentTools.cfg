SPECIFICATION Spec
CONSTANTS
    a = a
    b = b
    t1 = t1
    t2 = t2
    s1 = s1
    Asins = {a, b}
    Catalog = {a, b}
    Fields = {"min_roi", "eligible_only"}
    ValuesOf <- MCValuesOf
    Off = Off
    Meets <- MCMeets
    Limit = 2
    Eligible = {a, b}
    SqlResults <- MCSqlResults
    Budgets = {1}
    Turns = {t1, t2}
    Sessions = {s1}
    SessionOf <- MCSessionOf
    MaxCalls = 2
    None = None
SYMMETRY Symmetry
CHECK_DEADLOCK FALSE
INVARIANTS
    TypeOK
    ListsHonourExclusions
    FiltersExplainList
PROPERTY ImplementsPreferences
