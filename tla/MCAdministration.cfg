SPECIFICATION AdministrationSpec
CONSTANTS
    Names = {"t1"}
    NoName = "none"
    Contents = {"work", "stop"}
    Admins = {a1, a2}
    ChecklistJobs = {j1}
    MaxTemplates = 2
    MaxVersions = 3
    MaxSteps = 4
    Versions = {"v1", "v2"}
    Seeded = "v1"
    Definitions <- Submitted
    NoDefinition = none
    Approvers = {a1, a2}
    Assessors = {q1}
    MaxAssessments = 1
    RefNames = {"n1"}
    Codes = {"k1"}
    Prices = {5}
    NoPrice = none
    Editors = {d1, d2}
    ImportFile <- SourceFile
    FirstRefs <- OneCompany
    MaxItems = 2
    MaxRefs = 3
    MaxRevision = 3
    Phones = {"p1", "p2"}
    ServiceBranches = {b1}
    NoPhone = "none"
    Calls = {c1, c2}
    MaxRequests = 3
    MaxAccounts = 3
    BranchNames = {"b1", "b2"}
    CustomerNames = {"n1", "n2"}
    Plates = {"p1", "p2"}
    Vins = {"w1"}
    NoVin = "none"
    Desks = {d1, d2}
    MaxRows = 3
    MaxChanges = 5
SYMMETRY Symmetry
CHECK_DEADLOCK FALSE
INVARIANTS
    OneActiveVersion
    ChecklistIsAWholeVersion
    ActiveMatrixGoverns
    ScoresStayReproducible
    PriceHistoryIsLedger
    CatalogHoldsTogether
    OneAccountPerPhone
    RegistryAgrees
PROPERTIES
    NoLostUpdate
