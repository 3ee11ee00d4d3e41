SPECIFICATION FilterSpec
CONSTANTS
  s1 = s1
  s2 = s2
  Stores = {s1, s2}
  Contexts = {c1}
  Types = {t1, t2}
  FieldDefinition <- MCDefinitions
  Data = {hit, miss}
  MaxFields <- MCMaxFields
  MaxLists <- MCMaxLists
  NoContext = NoContext
  Filters = {f1}
  Literal = hit
  NoFilter = NoFilter
SYMMETRY Symmetry
INVARIANTS
  OwnFieldsExecute
PROPERTY AnswersNeedAWrite
CHECK_DEADLOCK FALSE
