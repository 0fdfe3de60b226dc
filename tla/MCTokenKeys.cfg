SPECIFICATION Spec
CONSTANTS
  Kids = {k1, k2}
  Threads = {t1, t2}
  TTL = 1
  Latency = 1
  Retries = 1
  MaxRotations = 2
  MaxTime = 2
  Nobody = Nobody
SYMMETRY Symmetric
INVARIANTS CurrentKeyAccepted WithdrawnKeyExpires
PROPERTIES NeverOlder
