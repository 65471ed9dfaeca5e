SPECIFICATION Spec
CONSTANTS
    Worker = {w1, w2}
    Region = {r1, r2, r3}
    Account = {acme}
    Nil = Nil
    Gone = Gone
SYMMETRY Symmetry
INVARIANTS
    TypeOK
    OneDefault
    BindingsExist
    DeleteIsChecked
PROPERTIES
    DefaultHandedOver
CHECK_DEADLOCK FALSE
