SPECIFICATION Spec
CONSTANTS
  Item = {i1}
  Thread = {t1}
  DedupeKey = {}
  IdemKey = {key}
  None = None
  NewItem <- Created
  MaxCommits = 7
  MaxTasks = 2
INVARIANT RetriesCreateNoDuplicate
SYMMETRY Symmetry
CHECK_DEADLOCK FALSE
