SPECIFICATION Spec
CHECK_DEADLOCK FALSE
INVARIANTS
  EncodersQuantise
PROPERTIES
  TablesAreMonotone
