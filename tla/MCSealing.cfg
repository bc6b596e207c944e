SPECIFICATION Spec
CONSTANTS
    NumSteps = 1
    StopSteps = {1}
    MeasuredSteps = {}
    RequiredPhotos <- NoPhotosRequired
    Users = {usta}
    Masters = {}
    NoUser = nobody
    Installations = {i1}
    Registries = {r1, r2}
    PolicyKinds = {"STOP_OVERRIDE"}
    Faults = {"CRASH"}
    LegacyJob = FALSE
    Requests = {q1, q2}
    MaxAttempt = 2
    MaxCycle = 2
    MaxClock = 1
    MaxPhotos = 0
    MaxSignatures = 2
    MaxRisks = 1
    MAX_PHOTOS_PER_ATTEMPT = 10
INVARIANTS
    OneLiveSignaturePerCycle
    ActiveSignatureIsCurrent
PROPERTIES
    ImplementsLedger
