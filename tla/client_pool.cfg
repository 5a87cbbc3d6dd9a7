SPECIFICATION FairSpec
CONSTANTS
    ClientNum = 2
    c1 = c1
    c2 = c2
    ch = ch
    s1 = s1
    a1 = a1
    r1 = r1
    Conns = {c1, c2, ch}
    Changers = {ch}
    Scanners = {s1}
    Autos = {a1}
    Reporters = {r1}
    HttpProxy = FALSE
    MaxScans = 1
    MaxReports = 1
    Casts <- PoolCasts
    None = None
INVARIANTS StuckMeansStolen StartupExact 
 
CHECK_DEADLOCK FALSE
