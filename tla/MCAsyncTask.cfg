CONSTANTS
  Tasks = {t1, t2}
  Threads = 1
  NULL = NULL
SPECIFICATION TaskSpec
CHECK_DEADLOCK FALSE
INVARIANT RefsConsistent
INVARIANT RunsOnce
PROPERTY StartedEnds
