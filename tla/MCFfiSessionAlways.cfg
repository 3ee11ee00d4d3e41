SPECIFICATION FfiSpec
CONSTANTS
  Threads = {"main", "other"}
  Callers = {"main"}
  Fields = {"f", "g"}
  Types = {"Int", "Bytes"}
  ListTypes = {"Int"}
  Declarable <- Declared
  Values <- AllValues
  Texts <- AllTexts
  Documents <- AllDocuments
  MaxStores = 2
  Absent = Absent
INVARIANT AlwaysListsMatch
CHECK_DEADLOCK FALSE
