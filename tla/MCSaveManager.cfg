CONSTANTS
  Size = 3
  Values = {0, 1}
  Paths = {"a", "b"}
  MaxWrites = 2
  MaxSetPaths = 1
  MaxFailures = 1
SPECIFICATION FairSpec
INVARIANTS TypeOK BufferFollowsGame SavedUnlessDisturbed PendingIsTimed
PROPERTY EventuallySaved
CHECK_DEADLOCK FALSE
