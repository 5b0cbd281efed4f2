SPECIFICATION Spec
CONSTANTS
    t = t
    d1 = d1
    d2 = d2
    x = x
    y = y
    s1 = s1
    s2 = s2
    Blob = {t, d1}
    Tree = {t}
    PackId = {1, 2, 3}
    IndexId = {1, 2}
    SnapId = {1}
    Session = {x, y}
    CmdsOf <- Pair
    Faults = {"crash", "storage"}
CHECK_DEADLOCK FALSE
INVARIANTS SnapshotsRestorable IndexSound DedupSound
