SPECIFICATION FairSpec
CONSTANTS
    s1 = s1  s2 = s2  m1 = m1  m2 = m2
    Scheduled = {s1, s2}
    Manual = {m1, m2}
    Nobody = Nobody
INVARIANTS MutualExclusion NoLostWakeup
PROPERTIES WaiterServed ServedInOrder
