\* The code as written: every lookup returns holding tc_common->lock.
CONSTANTS
    Backends = {b1, b2}
    NCols = 2
    HeadIds <- MCHeadIds
    Requests <- MCRequests
    Events <- MCEvents
    MaxShared = 1
    MaxRefcnt = 3
    KeepCommonLock = TRUE
SPECIFICATION Spec
CHECK_DEADLOCK FALSE
INVARIANT NoStuckSpinlock
