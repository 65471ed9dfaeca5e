SPECIFICATION TopicSpec
CONSTANTS
    Worker = {w1, w2}
    Nil = Nil
    Pairs <- Trash
    Plain <- Endpoints
    Order <- Written
    Endpoint = {"e1", "e2"}
    Fallback <- Defaults
    MaxLate = 1
SYMMETRY Symmetry
INVARIANT CleanupNeedsDays
