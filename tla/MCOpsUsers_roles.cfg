SPECIFICATION Spec
CONSTANTS
    admin = admin
    operator = operator
    Worker = {w1, w2}
    Id = {root, u1, u2}
    Seed = root
    Admin = admin
    RoleSets <- OneRoleEach
    Nil = Nil
    Gone = Gone
SYMMETRY Symmetry
INVARIANTS
    TypeOK
    RolesAsked
    FirstLoginGate
PROPERTIES
    StatusAsked
CHECK_DEADLOCK FALSE
