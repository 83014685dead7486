SPECIFICATION Spec
CONSTANTS
    MaxJobs = 1
    Datasource = {d1}
    Worker = {w1}
    Table = {t1}
    BatchSize = 1
    MaxCrashes = 0
    Hazard = {}
    None = None
PROPERTY CancelledIsNotPublished
\* Every job the bound allows may have ended: then nothing is left to do.
CHECK_DEADLOCK FALSE
