SPECIFICATION Spec
CONSTANTS
  Item = {i1, i2}
  Thread = {t1, t2}
  DedupeKey = {source}
  IdemKey = {key}
  None = None
  NewItem <- Created
  MaxCommits = 7
  MaxTasks = 2
INVARIANT OneActivePerKey
SYMMETRY Symmetry
CHECK_DEADLOCK FALSE
