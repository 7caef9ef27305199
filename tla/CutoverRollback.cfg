SPECIFICATION Spec
CONSTANTS
    Dirs = {d1, d2}
    NoDir = NoDir
SYMMETRY Symmetry
INVARIANTS
    NoDowngrade
    ArtifactsKept
PROPERTIES
    RollbackRuns
CHECK_DEADLOCK FALSE
