SPECIFICATION Spec
CONSTANTS
  Store = {s1, s2}
  Domain = {d1, d2}
  Txn = {t1, t2}
  None = None
  MaxSerial = 3
  MaxSlug = 1
SYMMETRY Symmetry
CHECK_DEADLOCK FALSE
INVARIANTS TypeOK BlockOfPlatform OneStorePerDomain SecretsNewest
PROPERTIES NoRevival
