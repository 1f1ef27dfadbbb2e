SPECIFICATION Spec
CONSTANTS
  k1 = k1
  k2 = k2
  k3 = k3
  k4 = k4
  v1 = v1
  v2 = v2
  Keys <- MCKeys
  Items = {v1, v2}
  Hash <- MCHash
  BucketCount = 2
  Free = Free
  Default = Default
INVARIANTS
  AlwaysRoom
PROPERTIES
  ImplementsMapping
