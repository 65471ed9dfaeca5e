SPECIFICATION Spec
CONSTANTS
    Worker = {w1, w2}
    Region = {r1, r2}
    Account = {acme}
    Nil = Nil
    Gone = Gone
SYMMETRY Symmetry
PROPERTIES
    BoundNotDeleted
CHECK_DEADLOCK FALSE
