CONSTANTS
    Readers = {r1}
    Flush = flush
    Closer = closer
    Batch = batch
    MaxDepth = 2
    BatchSize = 1
    MaxWrites = 3
SPECIFICATION FairSpec
CHECK_DEADLOCK FALSE
INVARIANTS
    TypeOK
    LossesAreCounted
PROPERTIES
    DrainsTakePriorWrites
    AcceptedWritesEnd
