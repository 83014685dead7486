SPECIFICATION Spec
CONSTANTS
    MaxJobs = 1
    Datasource = {d1}
    Worker = {w1}
    Table = {t1}
    BatchSize = 1
    MaxCrashes = 1
    Hazard = {}
    None = None
INVARIANT FailedIsUnpublished
\* Every job the bound allows may have ended: then nothing is left to do.
CHECK_DEADLOCK FALSE
