\* Two notebooks and six things the user does.
SPECIFICATION ShelfSpec
CONSTANTS
    Designs = {d1, d2}
    SmartPages = {p1}
    PageCount = 1
    MaxNotebooks = 2
    MaxActs = 6
INVARIANT AnyNotebookCanBeActive
CHECK_DEADLOCK FALSE
