CONSTANTS
  Structures = {s1, s2, s3}
  None = None
  Root = s1
  MaxRows = 2
  MaxDepth = 3
SPECIFICATION Spec
INVARIANTS TypeOK NeverInsideItself FieldsExact
PROPERTY Resolves
CHECK_DEADLOCK FALSE
