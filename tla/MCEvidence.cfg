SPECIFICATION Spec
CONSTANTS
    NumSteps = 2
    StopSteps = {2}
    MeasuredSteps = {1}
    RequiredPhotos <- OnePhotoEach
    Users = {usta, ustoz}
    Masters = {ustoz}
    NoUser = nobody
    Installations = {i1}
    Registries = {r1}
    PolicyKinds = {"STOP_OVERRIDE"}
    Faults = {"CRASH", "PUT_FAIL", "DELETE_FAIL"}
    LegacyJob = FALSE
    Requests = {q1}
    MaxAttempt = 2
    MaxCycle = 2
    MaxClock = 1
    MaxPhotos = 3
    MaxSignatures = 1
    MaxRisks = 1
    MAX_PHOTOS_PER_ATTEMPT = 1
INVARIANTS
    DoneStepsPassTheGate
    ReadyImpliesStored
    PhotosWithinLimit
