SPECIFICATION Spec
CONSTANTS
  Item = {i1}
  Thread = {t1, t2}
  DedupeKey = {}
  IdemKey = {key}
  None = None
  NewItem <- Created
  MaxCommits = 8
  MaxTasks = 2
INVARIANTS
  ColumnsAgree
  TasksNeedApproval
  TasksOnRecord
PROPERTY ClosedStaysClosed
SYMMETRY Symmetry
CHECK_DEADLOCK FALSE
