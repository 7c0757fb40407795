CONSTANTS
    CORES_NUMBER = 4
    BLOCK_SIZE = 4
SPECIFICATION Spec
INVARIANTS
    TypeOK
    SingleOwner
    NoLostRequest
    EvictionThenFetch
    DelayBehindUpgrade
    OneTransactionPerCore
    ListBounded
PROPERTIES
    NoOvertaking
    EveryRequestServed
