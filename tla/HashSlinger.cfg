SPECIFICATION SlingerSpec
CONSTANTS
  Thread = {t1, t2}
  Digest <- MCDigest
  Bits = 2
  Objhead = {h1, h2, h3}
  Hcby = {n1, n2, n3}
  Null = Null
  MaxRefs = 2
SYMMETRY Symmetry
CHECK_DEADLOCK FALSE
INVARIANTS
    SlingerSound
PROPERTIES
    IsHashTable
