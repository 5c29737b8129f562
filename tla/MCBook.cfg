SPECIFICATION Spec
CONSTANTS
    a1 = a1
    a2 = a2
    n1 = n1
    n2 = n2
    Entry <- TwoEntries
    Imports <- OneImport
    Browsers = 1
    MaxId = 3
INVARIANTS ATree   MovesAsAsked
PROPERTIES MergeCopies
CHECK_DEADLOCK FALSE
