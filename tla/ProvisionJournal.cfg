CONSTANTS
    c1 = c1
    c2 = c2
    c3 = c3
    Configs <- MCConfigs
    NoConfig = NoConfig
    Half = 4
    ReadsFail = FALSE
SPECIFICATION Spec
INVARIANTS TypeOK SequencesSuccessive
PROPERTIES ImplementsRegister WritesOtherSector WindowEnds
