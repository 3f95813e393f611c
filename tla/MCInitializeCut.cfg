\* The instance of MCInitializeFair.cfg, asked what raw_span_data.h:114 says of a
\* recovered span: the initialization after two interrupted ones breaks it.
CONSTANTS
  s1 = s1
  s2 = s2
  s3 = s3
  Small = Small
  Large = Large
  SpanId <- MCSpanId
  MmapSize <- MCMmapSize
  max_spans <- MCMaxSpans
  slot_words <- MCSlotWords
  page_words = 4
  reset_order <- SourceOrder
SPECIFICATION Spec
SYMMETRY MCSymmetry
INVARIANTS
  RecoversWholeSpans
