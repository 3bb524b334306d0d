SPECIFICATION Spec
CONSTANTS
  MaxBytes = 3
  MaxFiles = 4
  Lengths = {1, 2, 4}
  MaxRecords = 7
  MaxCrashes = 2
  MaxErrors = 2
INVARIANTS FilesBounded BackupsInOrder OnlyOldestLost
CHECK_DEADLOCK FALSE
