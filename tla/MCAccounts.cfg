SPECIFICATION Spec
CONSTANTS
    User = {admin, ann}
    Admin = admin
    Workspace = {main, other}
    Default = main
    Key = {k1, k2}
    MaxKeys = 1
    Unborn = Unborn
    Gone = Gone
    Homeless = Homeless
    NotCached = NotCached
    Overlap = 2
    Worlds <- MCWorlds
INVARIANTS TypeOK   CacheIsTrue DeletedIsOut KeyIsTrue
CHECK_DEADLOCK FALSE
