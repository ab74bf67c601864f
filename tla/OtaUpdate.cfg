CONSTANTS
    Versions <- MCVersions
    FactoryVersion = 1
    StableVersions <- MCStable
    Track = "prerelease"
    Ignored = 3
    NumChunks = 2
    SelectionSkipsRejected = FALSE
SPECIFICATION LiveSpec
INVARIANTS TypeOK RunningImageIntact ProbationHoldsUpdates ResetOnlyIntoProbation NeverBelowConfirmed
PROPERTIES SelectsOnlyVerified TransferEnds UpdateConverges
