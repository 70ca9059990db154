CONSTANTS
  Years = {1, 1899, 1900, 1901, 1999, 2000, 2001, 2004}
  Times = {0, 43200}
  Changes <- MCChanges
SPECIFICATION Spec
INVARIANT CastAgrees
INVARIANT CalendarAgrees
