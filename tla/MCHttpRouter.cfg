CONSTANTS
  root = root
  all = all
  app = app
  sub = sub
  get = get
  Routes <- MCRoutes
  Root = root
  Path <- MCPath
  Methods <- MCMethods
  Target <- MCTarget
  Children <- MCChildren
  Height <- MCHeight
  Characters <- MCCharacters
  Requests <- MCRequests
  NULL = NULL
  MaxMisuse = 2
SPECIFICATION Spec
CHECK_DEADLOCK FALSE
INVARIANT VisitsInOrder
INVARIANT OneResponse
PROPERTY RequestEnds
