SPECIFICATION PipelinesSpec
CONSTANTS
    N = 3
    Named = {1, 2}
    Needs <- FanNeeds
    Foreach = {1, 3}
    Retries <- FanRetries
    MaxItems = 2
    MaxRuns = 2
    MaxReopens = 1
    MaxAttempts = 3
    Calls = {"Cancel", "RetryFailed", "Late", "Drop", "Restart"}
    Inputs <- MCInputs
    MaxSteps = 3
    MaxRetries = 1
CHECK_DEADLOCK FALSE
INVARIANTS SuccessMeansAll DepsFirst AttemptsOK OverIsOver TopoOK ValidateOK
PROPERTIES RunEnds
