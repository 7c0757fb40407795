CONSTANTS
    CORES_NUMBER = 3
    BLOCK_SIZE = 4
    Tags = {0, 1}
    Indexes = {0}
    Data = {0}
    MEMORY_DELAY_TO_FIRST_BYTE = 16
    Loads <- TwoEvictors
    Stores <- TwoEvictors
    ErrCell = {}
SPECIFICATION Spec
INVARIANTS
    TypeOK
    TransferInStep
    SingleWriter
PROPERTIES
    Arbitration
    SomeAccessSucceedsUnlessContended
