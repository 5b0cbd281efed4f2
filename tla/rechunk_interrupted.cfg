SPECIFICATION Spec
CONSTANTS
    t = t
    d1 = d1
    d2 = d2
    x = x
    y = y
    s1 = s1
    s2 = s2
    Blob = {t, d1}
    Tree = {t}
    PackId = {1, 2}
    IndexId = {1, 2, 3}
    SnapId = {1, 2, 3}
    Session = {x}
    CmdsOf <- BackupRechunk
    Faults = {"interrupt"}
CHECK_DEADLOCK FALSE
INVARIANTS SnapshotsRestorable
