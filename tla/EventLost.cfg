\* One event, one publisher, a broker that is away for two polls and then back.
SPECIFICATION Spec
CONSTANTS
    p1 = p1
    i1 = i1
    i2 = i2
    g1 = g1
    g2 = g2
    Event = {1}
    Partition = {p1}
    PartitionOf <- MCPartitionOf
    Poller = {q1}
    MaxRetries = 2
    MaxBatchSize = 2
    Member = {i1}
    Group = {g1}
    GroupOf <- MCGroupOf
    DrawsGroup = TRUE
    HandlerPc = {"handle", "start", "fallback", "mark"}
    DatabasePc = {"handle", "fallback"}
    MaxSendFaults = 2
    MaxConsumerFaults = 0
PROPERTIES
    EventsAreNeverLost
CHECK_DEADLOCK FALSE
