\* One global reference more than a cache holds, so that a leak would let the
\* next load run out of them. Up to three spans, of up to two attributes; every
\* JNI call may fail.
CONSTANTS
  r1 = r1
  r2 = r2
  r3 = r3
  nullptr = nullptr
  Ref <- MCRef
  s0 = s0
  s1 = s1
  s2 = s2
  a = a
  b = b
  c = c
  null = null
  Span <- MCSpan
  Attribute <- MCAttribute
  attributes_of <- MCAttributes
  Recoverable <- MCRecoverable
SPECIFICATION LibrarySpec
INVARIANTS
  HeldOnce
  NoneLeaks
  NativesFindTheirClasses
  RefsAreScoped
  FactorySeesPairs
  ArrivesWhole
PROPERTIES
  Returns
