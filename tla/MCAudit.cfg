SPECIFICATION WatchedSpec
CONSTANTS
    Txns = {t1, t2}
    Operations <- AllOperations
    Days <- TwoDays
    PageSize = 1
    MaxTxns = 2
    MaxVerifications = 1
    MaxDamage = 1
    WatchedOperations = {"approveStop", "reopenJob", "login"}
CHECK_DEADLOCK FALSE
INVARIANTS
    ChainsAreLinked
    PagesNeverAlarm
    DamageStaysVisible
PROPERTIES
    TransactionsEnd
