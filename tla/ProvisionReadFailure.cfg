CONSTANTS
    c1 = c1
    c2 = c2
    c3 = c3
    Configs <- MCConfigs
    NoConfig = NoConfig
    Half = 4
    ReadsFail = TRUE
SPECIFICATION Spec
PROPERTIES WritesOtherSector
