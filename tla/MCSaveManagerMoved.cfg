CONSTANTS
  Size = 3
  Values = {0, 1}
  Paths = {"a", "b"}
  MaxFailures = 0
  MaxWrites = 1
  MaxSetPaths = 1
SPECIFICATION Spec
INVARIANT SavedOnClose
CHECK_DEADLOCK FALSE
