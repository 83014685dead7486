SPECIFICATION Spec
CONSTANTS
    MaxJobs = 2
    Datasource = {d1}
    Worker = {w1, w2}
    Table = {t1, t2}
    BatchSize = 1
    MaxCrashes = 1
    Hazard = {"slow", "error", "outage"}
    None = None
SYMMETRY Symmetry
INVARIANT TypeOK
 
INVARIANT CancelHolds
INVARIANT OutcomeIsTrue
PROPERTY CatalogSpec
\* Every job the bound allows may have ended: then nothing is left to do.
CHECK_DEADLOCK FALSE
