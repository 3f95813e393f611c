\* Three slots, so that a removal can move the last span over a slot that is
\* neither the first nor its neighbour, four ids, one end time and one list of
\* attributes besides none.
CONSTANTS
  s1 = s1
  s2 = s2
  s3 = s3
  s4 = s4
  t1 = t1
  a1 = a1
  SpanId <- MCSpanId
  Time <- MCTime
  Attributes <- MCAttributes
  MaxSpans = 3
  MaxMark = 4
SPECIFICATION Spec
SYMMETRY MCSymmetry
INVARIANTS
  TypeOK
  MarkedWhole
  AtMostOneDuplicate
  Quiescent
PROPERTIES
  OnlyRemovedSpansDisappear
  ImplementsSpanSet
