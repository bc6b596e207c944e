SPECIFICATION Spec
CONSTANTS
    NumSteps = 1
    StopSteps = {}
    MeasuredSteps = {}
    RequiredPhotos <- OnePhotoEach
    Users = {usta}
    Masters = {}
    NoUser = nobody
    Installations = {i1}
    Registries = {r1}
    PolicyKinds = {"THRESHOLD"}
    Faults = {}
    LegacyJob = FALSE
    Requests = {q1}
    MaxAttempt = 2
    MaxCycle = 2
    MaxClock = 1
    MaxPhotos = 2
    MaxSignatures = 2
    MaxRisks = 0
    MAX_PHOTOS_PER_ATTEMPT = 10
INVARIANTS
    CompletedOnCurrentAttempts
