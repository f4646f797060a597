CONSTANTS
  t1 = t1
  t2 = t2
  r1 = r1
  r2 = r2
  NoId = noId
  Task = {t1}
  Request = {r1}
  Columns = {"pending", "client_approval", "blocked", "done"}
  Subtasks <- const_Subtasks
  Checklist = {0}
  Edits <- const_Edits
  Manual <- const_Manual
SPECIFICATION Spec
INVARIANTS
  FinalComplete
