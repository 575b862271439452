SPECIFICATION Spec
CONSTANTS
    a = a
    b = b
    shop = shop
    e1 = e1
    e2 = e2
    w1 = w1
    w2 = w2
    Amazon = Amazon
    None = None
    Missing = Missing
    Asins = {a, b}
    Products <- MCProducts
    Now = 10
    Csvs <- MCCsvs
    CsvOrder <- MCCsvOrder
    Etls = {e1, e2}
    Workers = {w1, w2}
SYMMETRY MCSym
CHECK_DEADLOCK FALSE
INVARIANTS
    RowsAgree
    CostFromCsv
PROPERTY ReportIsTrue
