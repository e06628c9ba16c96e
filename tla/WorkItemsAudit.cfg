SPECIFICATION Spec
CONSTANTS
  Item = {i1}
  Thread = {t1, t2}
  DedupeKey = {}
  IdemKey = {key}
  None = None
  NewItem <- Created
  MaxCommits = 7
  MaxTasks = 2
INVARIANT AuditAppendOnly
SYMMETRY Symmetry
CHECK_DEADLOCK FALSE
