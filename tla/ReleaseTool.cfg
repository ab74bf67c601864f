CONSTANTS
    Contents = {"m1", "m2", "m3"}
    Pids = {"pid7", "pid8"}
    MaxFailures = 2
SPECIFICATION Spec
INVARIANTS OutputWhole SuccessSurvives
PROPERTIES RetrySucceeds
