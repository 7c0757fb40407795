CONSTANTS
    SIZE_OF_PROGRAM = 4
    Registers = {0, 2, 3, 15}
    WIDTH = 2
    Programs <- AllPrograms
SPECIFICATION Spec
CONSTRAINT NoDeparture
INVARIANTS
    TypeOK
PROPERTIES
    ImplementsIsa
