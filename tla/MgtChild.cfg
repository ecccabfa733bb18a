SPECIFICATION Spec
CONSTANTS
  Vcl = {boot, other}
  Boot = boot
  Nothing = Nothing
  Off = Off
  MaxStale = 2
INVARIANTS
    ManagerSound
    SameVcls
PROPERTIES
    Recovers
    Supervises
