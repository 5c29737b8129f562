SPECIFICATION Spec
CONSTANTS
    Documents <- TheDocuments
    Names = {"A", "B"}
    Levels = {"-60", "0"}
    StreamId = {"s1"}
    MaxAsked = 1
INVARIANTS Forest NamesFresh ShownIsNewest 
CHECK_DEADLOCK FALSE
