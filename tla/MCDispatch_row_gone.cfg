SPECIFICATION TopicSpec
CONSTANTS
    Worker = {w1, w2}
    LifecycleRule = {l1}
    AlertRule = {a1}
    Channel = {c1}
    Bucket = {media}
    Days = {0, 1}
    Type = {"email", "webhook"}
    Config <- Configs
    Evaluator = {ev1}
    EventId = {e1}
    Absent = Absent
    Nil = Nil
    Gone = Gone
INVARIANTS
    GoneIsNotFound
CHECK_DEADLOCK FALSE
