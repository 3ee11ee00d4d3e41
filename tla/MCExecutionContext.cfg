SPECIFICATION Spec
CONSTANTS
  s1 = s1
  s2 = s2
  Stores = {s1, s2}
  Contexts = {c1, c2}
  Types = {t1, t2}
  FieldDefinition <- Mandatory
  Data = {d1}
  MaxFields <- MCMaxFields
  MaxLists <- MCMaxLists
  NoContext = NoContext
SYMMETRY Symmetry
INVARIANTS
  OwnFieldsFit
  ValuesAreTyped
  LentToOneGuard
PROPERTY WritesAreOwned
CHECK_DEADLOCK FALSE
