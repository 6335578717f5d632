SPECIFICATION Spec
CONSTANTS
  Programs = {"uffd", "s2dsm"}
  MaxPages = 3
  PageCells = 3
  Letters = 2
  Char = {120, 121}
INVARIANTS TypeOK PassesAsCommented FaultsOncePerPage ReadsLastWrite
PROPERTY Completes
CHECK_DEADLOCK FALSE
