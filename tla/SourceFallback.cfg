CONSTANTS
  Includes = {i1, i2, i3}
  MaxIncludes = 3
  MaxRetries = 2
SPECIFICATION Spec
INVARIANT FallsBack
