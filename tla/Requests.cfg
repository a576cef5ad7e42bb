CONSTANTS
    r1 = r1
    r2 = r2
    welcome = welcome
    Rs = {r1, r2}
    Serves <- TwoRequests
    Names = {welcome}
    Demands = {{}, {"user", "app"}}
    Bodies = {{"app"}, {"user", "app"}}
    MaxBatch = 2
SPECIFICATION Spec
INVARIANTS TypeOK AnswerTruthful ErrorCutsBatch PartsLostByFailure
PROPERTIES HealthyFileIsEnough
