\* Lookup, creation, build and teardown of cache heads by two backends, with
\* the release of tc_common->lock that the callers of tcache_get_tchead assume.
CONSTANTS
    Backends = {b1, b2}
    NCols = 2
    HeadIds <- MCHeadIds
    Requests <- MCRequestsRow
    Events <- MCEvents
    MaxShared = 1
    MaxRefcnt = 3
    KeepCommonLock = FALSE
SPECIFICATION Spec
\* A backend can wait for an lwlock held by an idle backend, or by itself.
CHECK_DEADLOCK FALSE
SYMMETRY MCSymmetry
INVARIANT TypeOK SingleLinked BuilderExclusive
