CONSTANTS
    p1 = p1
    Producers = {p1}
    BufferSize = 1
    BatchSize = 2
    MaxBufferBatches = 2
    BaseBackoff = 1
    MaxBackoff = 2
    MaxCalls = 4
    MaxReceived = 1
SPECIFICATION FairSpec
INVARIANTS TypeOK RetryPending DeliveredInOrder CloseDelivers
PROPERTIES ImplementsLossyLog EventuallyDelivered CloseReturns
