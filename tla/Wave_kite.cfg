SPECIFICATION Spec
CONSTANTS
    Site = {1, 2, 3, 4, 5}
    Neighbours <- Kite
    Initiators = {1}
INVARIANTS
    TypeOK
    CompleteMeansAll
    MetOnce
    NoWaveAbandoned
CHECK_DEADLOCK FALSE
