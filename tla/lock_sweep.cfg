SPECIFICATION FairSpec
CONSTANTS
    e1 = e1
    e2 = e2
    s1 = s1
    s2 = s2
    u1 = u1
    c1 = c1
    Session = {e1, u1, c1}
    Exclusive = {e1}
    Unlocker = {u1}
    Collector = {c1}
    EarlyDrop = {e1}
    HostOf <- TwoHosts
    Expire = 4
    HolderMax = 2
    AcquireMax = 2
    Faults = {"storage", "signal", "read"}
INVARIANT LiveLockKept
PROPERTY AbandonedLockRemoved
