CONSTANTS
  Mem = {m1, m2, m3, m4}
  Deleters = {d1, d2}
  MaxSess = 1
SPECIFICATION SessMemFairSpec
INVARIANTS
    SessMemSound
PROPERTIES
    FreeIsUsed
