\* Room for two of four keys, one of which is stored as another; a span may be
\* made with more attributes than there is room for.
CONSTANTS
  k1 = k1
  k2 = k2
  k3 = k3
  long = long
  v1 = v1
  v2 = v2
  Empty = Empty
  Cut = Cut
  Key <- MCKey
  Value <- MCValue
  Truncated <- MCTruncated
  max_attributes = 2
  MaxInitial = 3
SPECIFICATION Spec
SYMMETRY MCSymmetry
INVARIANTS
  OneAttributePerKey
PROPERTIES
  ImplementsMap
