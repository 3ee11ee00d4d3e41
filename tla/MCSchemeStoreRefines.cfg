SPECIFICATION Spec
CONSTANTS
  Builders = {b1, b2}
  Names = {n1}
  Types = {t1, t2}
  ListTypes = {t1}
  Definitions = {d1, d2}
SYMMETRY Symmetry
PROPERTY ImplementsCatalogue
CHECK_DEADLOCK FALSE
