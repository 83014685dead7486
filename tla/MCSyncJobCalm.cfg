SPECIFICATION FairSpec
CONSTANTS
    MaxJobs = 2
    Datasource = {d1}
    Worker = {w1, w2}
    Table = {t1, t2}
    BatchSize = 2
    MaxCrashes = 0
    Hazard = {}
    None = None
INVARIANT NothingStranded
INVARIANT FailedIsUnpublished
PROPERTY OutcomeStands
PROPERTY EveryJobEnds
\* Every job the bound allows may have ended: then nothing is left to do.
CHECK_DEADLOCK FALSE
