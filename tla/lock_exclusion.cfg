SPECIFICATION Spec
CONSTANTS
    e1 = e1
    e2 = e2
    s1 = s1
    s2 = s2
    u1 = u1
    c1 = c1
    Session = {e1, e2, s1}
    Exclusive = {e1, e2}
    Unlocker = {}
    Collector = {}
    EarlyDrop = {}
    HostOf <- TwoHosts
    Expire = 3
    HolderMax = 2
    AcquireMax = 1
    Faults = {"storage"}
INVARIANT TypeOK
INVARIANT MutualExclusion
PROPERTY ImplementsRwLock
