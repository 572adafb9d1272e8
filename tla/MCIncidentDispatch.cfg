\* Two events in one partition, two publishers and two investigators.
SPECIFICATION Spec
CONSTANTS
    p1 = p1
    i1 = i1
    i2 = i2
    g1 = g1
    g2 = g2
    Event = {1, 2}
    Partition = {p1}
    PartitionOf <- MCPartitionOf
    MaxSendFaults = 2
    Poller = {q1, q2}
    MaxRetries = 2
    MaxBatchSize = 2
    Member = {i1, i2}
    Group = {g1, g2}
    GroupOf <- MCGroupOf
    DrawsGroup = TRUE
    HandlerPc = {"handle", "start", "fallback", "mark"}
    DatabasePc = {"handle", "fallback"}
    MaxConsumerFaults = 2
CONSTRAINT FewDisturbances
INVARIANTS
    TypeOK
    DuplicatesArePaidFor
    InvestigationsAreBounded
    PassedIsInvestigated
PROPERTIES
    ImplementsDelivery
    DeliveredUnlessKafkaIsAway
CHECK_DEADLOCK FALSE
