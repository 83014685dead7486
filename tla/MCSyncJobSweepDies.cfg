SPECIFICATION FairSpec
CONSTANTS
    MaxJobs = 1
    Datasource = {d1}
    Worker = {w1}
    Table = {t1}
    BatchSize = 1
    MaxCrashes = 1
    Hazard = {"outage"}
    None = None
PROPERTY StaleIsRecovered
\* Every job the bound allows may have ended: then nothing is left to do.
CHECK_DEADLOCK FALSE
