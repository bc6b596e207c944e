SPECIFICATION Spec
CONSTANTS
    NumSteps = 3
    StopSteps = {2, 3}
    MeasuredSteps = {1, 3}
    RequiredPhotos <- NoPhotosRequired
    Users = {usta, ustoz}
    Masters = {}
    NoUser = nobody
    Installations = {i1, i2}
    Registries = {r1}
    PolicyKinds = {"STOP_OVERRIDE", "THRESHOLD"}
    Faults = {}
    LegacyJob = FALSE
    Requests = {q1}
    MaxAttempt = 2
    MaxCycle = 2
    MaxClock = 2
    MaxPhotos = 0
    MaxSignatures = 1
    MaxRisks = 2
    MAX_PHOTOS_PER_ATTEMPT = 10
INVARIANTS
    StopConsistency
    HeaderMatchesSteps
    CycleConsistency
    SubmittedInOrder
    StopRiskFollowsDecision
PROPERTIES
    DecisionsAreFinal
