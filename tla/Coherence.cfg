CONSTANTS
    CORES_NUMBER = 2
    BLOCK_SIZE = 2
    Tags = {0, 1}
    Indexes = {0}
    Data = {0, 1}
    MEMORY_DELAY_TO_FIRST_BYTE = 2
    Loads <- AllAddresses
    Stores <- AllAddresses
    ErrCell = {}
SPECIFICATION CoherenceSpec
CONSTRAINT NoRaceYet
INVARIANTS
    CoherentUnlessRaced
