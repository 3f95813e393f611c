\* Two contexts, sizes of one and two slots, and three spans: the store fills
\* up, and a context evicts spans, its own and the other's; the second context
\* resizes the file under the first, either way.
CONSTANTS
  s1 = s1
  s2 = s2
  s3 = s3
  c1 = c1
  c2 = c2
  Small = Small
  Medium = Medium
  null = null
  SpanId <- MCSpanId
  Context <- MCContext
  MmapSize <- MCMmapSize
  max_count <- MCMaxCount
SPECIFICATION Spec
SYMMETRY MCSymmetry
INVARIANTS
  SlotsConsistent
  DeliveredOnce
PROPERTIES
  OneAtATimeIsSafe
