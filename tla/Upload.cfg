SPECIFICATION Spec
CONSTANTS
  h1 = h1
  h2 = h2
  boot = boot
  Handlers = {h1, h2}
  Boot = boot
  Names = {"x", "y"}
  Sizes = {0, 1, 2, 3}
  MaxStorageBytes = 2
  MaxUploads = 3
  MaxCrashes = 1
  IOErrors = TRUE
INVARIANTS CapHolds FilesAreWhole PruneSucceeds
CHECK_DEADLOCK FALSE
