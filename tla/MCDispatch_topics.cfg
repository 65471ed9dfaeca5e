SPECIFICATION TopicSpec
CONSTANTS
    Worker = {w1, w2}
    LifecycleRule = {l1}
    AlertRule = {a1}
    Channel = {c1, c2}
    Bucket = {media}
    Days = {0, 1}
    Type = {"email", "webhook"}
    Config <- Configs
    Evaluator = {ev1}
    EventId = {e1}
    Absent = Absent
    Nil = Nil
    Gone = Gone
SYMMETRY Symmetry
INVARIANTS
    DispatchTypeOK
    AskedIsStored
    ChannelsAreValid
    NotesAreTrue
    QuietGetsNothing
CHECK_DEADLOCK FALSE
