CONSTANTS
    Producers = {p1, p2}
    Consumers = {c1, c2}
    NMsgs = 2
    Timeouts = {0, 500}
    USecs = {0, 600000}
SPECIFICATION Spec
PROPERTY ShutdownReleasesWaiters
