SPECIFICATION FairSpec
CONSTANTS
    a = a
    b = b
    c = c
    d = d
    x = x
    y = y
    z = z
    Site = {a, b, c, d}
    NoHost = NoHost
    NbParts = 2
    Owner = {a, b}
    Faulty <- BadDisk
    Transfer = {x, y, z}
    By <- Downloads
    Plan <- Plans
INVARIANTS
    TypeOK
    RegistersTrue
    AskedHasPart
    AlteredBetweenAnswers
    LeaversForgotten
PROPERTIES
    UndisturbedEnd
CHECK_DEADLOCK FALSE
