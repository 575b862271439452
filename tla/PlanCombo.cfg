SPECIFICATION Spec
CONSTANTS
    Asins = {1, 2, 3}
    Roi <- MCRoi
    Eligible = {1, 2, 3}
    Costs = {0, 1, 2, 3, 5}
    Categories = {k, l}
    Budgets <- MCBudgets
    Cent = 2
    None = None
    k = k
    l = l
CHECK_DEADLOCK FALSE
INVARIANTS
    WithinBudget
    BudgetUsedUp
    EveryCategoryThatFits
