SPECIFICATION Spec
CONSTANTS
    t = t
    d1 = d1
    d2 = d2
    x = x
    y = y
    s1 = s1
    s2 = s2
    Blob = {t, d1}
    Tree = {t}
    PackId = {1, 2}
    IndexId = {1, 2, 3}
    SnapId = {s1, s2}
    Session = {x}
    CmdsOf <- Cut
    Faults = {"crash", "window", "interrupt", "storage"}
SYMMETRY SnapSymmetry
CHECK_DEADLOCK FALSE
PROPERTIES NothingBroken
