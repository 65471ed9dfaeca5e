SPECIFICATION TopicSpec
CONSTANTS
    Worker = {w1, w2}
    Name = {media, bad}
    BadName = {bad}
    Policy = {public}
    MaxBatch = 2
    MaxChanges = 2
    Operator = {o1, o2}
    Rgw = {g1, g2}
    Waits = {0, 1, 2}
    Limit = 1
    PageSize = 2
    MaxLog = 3
    MaxTime = 1
    All = All
    Nil = Nil
INVARIANTS
    GatewayTypeOK
    PageIsRight
    WalkFindsAll
    RegisteredOnce
    ChangesAreAudited
    RollIsHonest
    OkRollsAreShort
PROPERTY RollEnds
CHECK_DEADLOCK FALSE
