SPECIFICATION TopicSpec
CONSTANTS
    r1 = r1
    Worker = {w1, w2}
    Account = {acme}
    Bucket = {media}
    Rule = {r1, b1}
    Typing <- Kinds
    EventId = {e1, e2, e3}
    Changes = {"user", "rule", "remove", "use", "standing"}
    Nil = Nil
    Gone = Gone
SYMMETRY Symmetry
INVARIANTS
    TypeOK
    OpenEventsBounded
    EvaluationConclusive
PROPERTIES
    ResolvedIsFinal
CHECK_DEADLOCK FALSE
