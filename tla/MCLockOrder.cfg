SPECIFICATION WatchedSpec
CONSTANTS
    Txns = {t1, t2}
    Operations = {"startJob", "login"}
    Days <- OneDay
    PageSize = 1
    MaxTxns = 2
    MaxVerifications = 0
    MaxDamage = 0
    WatchedOperations = {}
CHECK_DEADLOCK FALSE
INVARIANTS
    HeadsAreNeverDeadlocked
