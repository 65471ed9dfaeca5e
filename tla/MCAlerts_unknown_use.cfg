SPECIFICATION TopicSpec
CONSTANTS
    r1 = r1
    Worker = {w1}
    Account = {acme}
    Bucket = {}
    Rule = {r1}
    Typing <- Kinds
    EventId = {e1, e2}
    Changes = {}
    Nil = Nil
    Gone = Gone
SYMMETRY Symmetry
PROPERTIES
    ClosedBelowThreshold
CHECK_DEADLOCK FALSE
