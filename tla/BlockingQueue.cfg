\* Four threads, each of which may push and take; three pushes.
CONSTANTS
    Threads = {t1, t2, t3, t4}
    Values = {v1, v2}
    MaxPushes = 3
SPECIFICATION FairSpec
INVARIANTS InOrder NoLostWakeup
PROPERTY WaitersServed
CHECK_DEADLOCK FALSE
