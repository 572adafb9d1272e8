CONSTANTS
    e1 = e1
    e2 = e2
    e3 = e3
    p1 = p1
    p2 = p2
    m1 = m1
    m2 = m2
    webhook = webhook
    manual = manual
    Event = {e1, e2, e3}
    Partition = {p1, p2}
    PartitionOf <- TwoPartitions
    Member = {m1}
    Group <- OneGroup
    GroupOf <- Correlators
    DrawsGroup = FALSE
    HandlerPc <- Handler
    DatabasePc <- Handler
    MaxConsumerFaults = 1
    MaxSendFaults = 0
    Call = {webhook, manual}
    Alerts <- Posted
    Manual = {manual}
    Scenarios <- CascadeOnly
    DedupWindow = 0
    CorrelationWindow = 1
    MaxTime = 1
    MaxDisturbances = 1

SPECIFICATION Spec

CHECK_DEADLOCK FALSE

INVARIANT FailedIsRedelivered
