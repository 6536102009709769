SPECIFICATION FairSpec
CONSTANTS
    Threads = {t1, t2, t3}
    NoOwner = NoOwner
    MaxAnnounced = 1
INVARIANTS
    TypeOK
    NoLostWakeup
    DeliveredAtMostOnce
PROPERTIES
    ImplementsEventFlag
    SleeperAnswered
