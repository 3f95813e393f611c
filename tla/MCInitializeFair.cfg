\* A small file of 4 words, where the first large slot is cut, and a large one
\* of 12. Three spans, each added once, over any number of processes. No
\* symmetry: one of the properties is a liveness property.
CONSTANTS
  s1 = s1
  s2 = s2
  s3 = s3
  Small = Small
  Large = Large
  SpanId <- MCSpanId
  MmapSize <- MCMmapSize
  max_spans <- MCMaxSpans
  slot_words <- MCSlotWords
  page_words = 4
  reset_order <- SourceOrder
SPECIFICATION FairSpec
INVARIANTS
  TypeOK
  ReadsOwnLayout
  AtMostOnce
  StartsClean
PROPERTIES
  LeavesDiskIntoMemory
  FailureKeepsSpans
  HandedOverInTheEnd
