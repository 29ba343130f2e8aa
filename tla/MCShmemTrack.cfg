CONSTANTS
    Procs = {p1, p2}
    Blocks = {b1, b2, b3}
SPECIFICATION Spec
INVARIANT TypeOK TrackExact NothingOutlivesOwner
PROPERTY CleanupScoped CleanupTerminates
