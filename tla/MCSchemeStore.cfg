SPECIFICATION Spec
CONSTANTS
  Builders = {b1, b2}
  Names = {n1, n2}
  Types = {t1, t2}
  ListTypes = {t1}
  Definitions = {d1}
SYMMETRY Symmetry
INVARIANTS
  StoreIndexed
  ItemsResolve
  SchemeIdsIdentify
PROPERTIES
  AnswersAreStable
  FailedCallsChangeNothing
CHECK_DEADLOCK FALSE
