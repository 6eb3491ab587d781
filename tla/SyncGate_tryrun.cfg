SPECIFICATION Spec
CONSTANTS
    s1 = s1  m1 = m1  m2 = m2
    Scheduled = {s1}
    Manual = {m1, m2}
    Nobody = Nobody
INVARIANTS TryRunNeverWaits
