SPECIFICATION Spec
CONSTANTS
    Src = src
    Dst = dst
    New = new
    Dates = {1, 2, 3}
    ExDates = {2, 3}
    Vendors = {"sharadar"}
    Own <- MCOwn
    Feed <- MCFeed
    MaxOps = 2
    MaxFlags = 2
    Subjects <- MCSubjects
    Counted = {"price_out_of_range"}
    None = none
INVARIANTS RemovedStaysOut
PROPERTIES UndoRestores MovedRowsReturn FlagsComeHome
CHECK_DEADLOCK FALSE
