SPECIFICATION Spec
CONSTANTS
  j1 = j1
  j2 = j2
  j3 = j3
  j4 = j4
  c1 = c1
  c2 = c2
  None = None
  Job <- Jobs
  Kind <- MCKind
  Code <- MCCode
  MaxWorkers = 2
CHECK_DEADLOCK FALSE
INVARIANTS
  ProcessesBound
  AnsweredOnce
