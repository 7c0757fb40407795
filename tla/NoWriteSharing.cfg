CONSTANTS
    CORES_NUMBER = 3
    BLOCK_SIZE = 2
    Tags = {0, 1, 2}
    Indexes = {0}
    Data = {0, 1}
    MEMORY_DELAY_TO_FIRST_BYTE = 2
    Loads <- OwnOrCommonTag
    Stores <- OwnTag
    ErrCell = {}
SPECIFICATION CoherenceSpec
INVARIANTS
    Coherent
PROPERTIES
    EveryAccessSucceeds
