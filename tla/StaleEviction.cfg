CONSTANTS
    CORES_NUMBER = 2
    BLOCK_SIZE = 4
    Tags = {0, 1}
    Indexes = {0}
    Data = {0, 1}
    MEMORY_DELAY_TO_FIRST_BYTE = 16
    Loads <- OneEvictor
    Stores <- OneEvictor
    ErrCell = {}
SPECIFICATION CoherenceSpec
INVARIANTS
    EvictionKeepsStores
