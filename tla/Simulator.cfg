CONSTANTS
    CORES_NUMBER = 4
    BLOCK_SIZE = 4
    Tags = {0, 1}
    Indexes = {0, 1}
    WIDTH = 4
    Data <- SixteenWords
    Registers = {0, 2, 3, 15}
    MEMORY_DELAY_TO_FIRST_BYTE = 16
    Loads <- AllAddresses
    Stores <- AllAddresses
    ErrCell = {}
    Workloads <- AllWorkloads
    MemIn <- File
    LINE_COUNTER = 8
CHECK_DEADLOCK FALSE
SPECIFICATION StatisticsSpec
INVARIANTS
    SingleWriter
    InstructionsCounted
    CyclesExplained
    LookupsCounted
PROPERTIES
    Finishes
    SequentiallyConsistent
