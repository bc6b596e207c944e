SPECIFICATION FairSpec
CONSTANTS
    NumSteps = 1
    StopSteps = {1}
    MeasuredSteps = {}
    RequiredPhotos <- OnePhotoEach
    Users = {usta}
    Masters = {}
    NoUser = nobody
    Installations = {i1}
    Registries = {r1}
    PolicyKinds = {"STOP_OVERRIDE"}
    Faults = {"PUT_FAIL"}
    LegacyJob = FALSE
    Requests = {q1}
    MaxAttempt = 2
    MaxCycle = 1
    MaxClock = 1
    MaxPhotos = 2
    MaxSignatures = 1
    MaxRisks = 1
    MAX_PHOTOS_PER_ATTEMPT = 2
PROPERTIES
    SubmittedEvidenceOnlyShrinks
    UploadsSettle
    PutEndsAcceptedOrDeleted
