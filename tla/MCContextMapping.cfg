\* Pages of 4 words; a file starts absent, shorter than a page, or of a size
\* no layout has. Two addresses: a mapping may take the place of an earlier one.
CONSTANTS
  Small = Small
  Medium = Medium
  Large = Large
  a1 = a1
  a2 = a2
  nullptr = nullptr
  MmapSize <- MCMmapSize
  sizeof <- MCSizeof
  Address <- MCAddress
  page_size = 4
  FileSize = {0, 2, 6}
SPECIFICATION Spec
INVARIANTS
  ReturnsCleanly
  AccessIsMapped
  MappingsWithinFile
