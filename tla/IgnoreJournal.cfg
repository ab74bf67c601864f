CONSTANTS
    Versions = {"v1", "v2"}
    MaxSessions = 3
SPECIFICATION Spec
INVARIANTS DecisionOldOrNew NewAppKnowsDecision
