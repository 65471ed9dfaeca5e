SPECIFICATION FairSpec
CONSTANTS
    Rule = {r1}
    Prefix <- Prefixes
    ActSets <- Sets
    Listing <- Keys
    PageSize = 2
    MaxDeletes = 2
    MaxTime = 1
    Nil = Nil
INVARIANTS
    TypeOK
    TaskIsThorough
PROPERTIES
    DeletesAreAsked
    RunEnds
