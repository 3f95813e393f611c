\* The instance of MCCopyString.cfg, asked what raw_span_data.h:131 says of a
\* crash within a copy.
CONSTANTS
  N = 4
  Character <- MCCharacter
  Strings <- MCStrings
SPECIFICATION CopySpec
INVARIANTS
  LostInTheWorstCase
