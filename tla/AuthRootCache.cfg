SPECIFICATION CacheSpec
CONSTANTS
    t1 = t1
    m1 = m1
    m2 = m2
    Tools = {t1}
    Modules = {m1, m2}
    MaxAge = 1
    MaxLag = 1
    Skews = {0, 1}
    MaxDay = 5
    Rosters <- MCRosters
SYMMETRY
    Symmetry
VIEW
    View
INVARIANTS
    CacheTypeOK
    CacheIsSound
PROPERTIES
    NoRollback
