CONSTANTS
    n1 = n1
    n2 = n2
    al = al
    a1 = a1
    a2 = a2
    r1 = r1
    k1 = k1
    k2 = k2
    EnvKey = EnvKey
    NoKey = NoKey
    None = None
    Absent = Absent
    Name = {n1, n2}
    Alias = {al}
    Admin = {a1, a2}
    Request = {}
    TypedKey = {k1}
    EnvNames = {n1}
    Probeable = {}
    FileProviders <- MCFileProviders
    FileRoutes <- MCFileRoutes
    FileFallback = None
    MaxOps = 2
    MaxCrashes = 0
SPECIFICATION Spec
INVARIANT EveryWriteIsLive
CHECK_DEADLOCK FALSE
