SPECIFICATION Spec
CONSTANTS
    MaxJobs = 3
    Datasource = {d1}
    Worker = {w1, w2}
    Table = {t1}
    BatchSize = 1
    MaxCrashes = 0
    Hazard = {"slow", "error"}
    None = None
SYMMETRY Symmetry
INVARIANT OneActiveJob
INVARIANT RunOnce
\* Every job the bound allows may have ended: then nothing is left to do.
CHECK_DEADLOCK FALSE
