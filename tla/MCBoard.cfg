CONSTANTS
  t1 = t1
  t2 = t2
  r1 = r1
  r2 = r2
  NoId = noId
  Task <- const_Tasks
  Request <- const_Requests
  Columns = {"pending", "client_approval", "blocked"}
  Subtasks = {}
  Checklist = {0}
  Edits <- const_Edits
  Manual <- const_Manual
SPECIFICATION Spec
SYMMETRY const_Symmetry
INVARIANTS
  TypeOK
  SummaryInStep
  BlockTypeInColumn
PROPERTIES
  TimeoutReleased
