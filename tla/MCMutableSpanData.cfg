\* Three slots and four ids: the store fills up and evicts after removals
\* have moved spans out of the order they were added in.
CONSTANTS
  s1 = s1
  s2 = s2
  s3 = s3
  s4 = s4
  t1 = t1
  a1 = a1
  SpanId <- MCSpanId
  Time <- MCTime
  Attributes <- MCAttributes
  MaxSpans = 3
  MaxMark = 5
SPECIFICATION Spec
SYMMETRY MCSymmetry
INVARIANTS
  IndexFindsItsSpan
  OldestIsEvicted
PROPERTIES
  KeepsRawContract
  ImplementsSpanBuffer
